---- MODULE Spec2Model ----
(***************************************************************************)
(* Model of time-series-rag-agent: the continuity guard (SafeMerge), the   *)
(* candle-close handler (wsHandler) and the order execution engine         *)
(* (trade.Executor.PlaceTrade) running against the exchange, with the      *)
(* pattern store, the feature and label engines and the audit-log queue.   *)
(*                                                                         *)
(* The specifications:                                                     *)
(*   SpecMerge  SafeMerge as a pure function, applied to REST histories    *)
(*              and live candles drawn from bounded sets;                  *)
(*   Spec       the handler and PlaceTrade, one step per external call,    *)
(*              interleaved with the exchange (fills and triggers);        *)
(*   SpecFair   Spec with the ticker and the timer of the balance wait;    *)
(*   SpecIngest the pattern store: transactions and queries;               *)
(*   SpecLabels, SpecBulk  the label engine on drawn histories;            *)
(*   SpecOrders the numbers and the requests of one PlaceTrade;            *)
(*   SpecStream the kline stream and the handler calls it makes;           *)
(*   SpecBackfill  the pattern store under the bulk save of the backfill   *)
(*              program and the ingests of the live process;               *)
(*   SpecLive   the handler and its background ingests, one per candle,    *)
(*              on the pattern store;                                      *)
(*   SpecSearch one SearchPatterns query on drawn tables;                  *)
(*   SpecFeatures, SpecSlope  the feature engine on drawn histories;       *)
(*   SpecConsumer  the audit-log queue and ConsumeTradingLogs.             *)
(***************************************************************************)
EXTENDS Integers, Sequences, FiniteSets, TLC

VARIABLES
    \* ---- SafeMerge, checked alone (SpecMerge)
    mHistory,     \* the REST history handed to SafeMerge
    mLive,        \* the live candle
    mReqWindow,   \* reqWindow
    mResult       \* what SafeMerge returned, or NotRun

VARIABLES
    \* ---- the exchange (Spec)
    position,     \* signed position amount of the symbol, in entry quantities
    orders,       \* resting standard (limit entry) orders
    algos,        \* resting conditional reduce-only orders (SL / TP)
    \* ---- the process (Spec)
    pc,           \* where wsHandler / PlaceTrade stands
    cycle,        \* number of final candle-close events taken so far
    \* ---- locals of the running handler call, reset when it returns
    liveTime,     \* liveCandle.Time
    window,       \* cleanWindow
    dispatched,   \* the background ingest goroutine of this call was started
    ingested,     \* ... and has returned
    hasPos,       \* hasPos as HasOpenPosition reported it
    signal,       \* the verdict: [side, conf], NoSignal before it is known
    ops,          \* what PlaceTrade has asked of the exchange, with the outcome
    toCancel,     \* openAlgos not yet walked by CancelAllAlgoOrders
    polls,        \* ticks WaitForBalanceRelease has taken
    quantity,     \* quantity string of CalculateQuantity
    tradeErr,     \* what PlaceTrade returned
    outcome       \* why the handler returned

VARIABLES
    \* ---- the pattern store, checked alone (SpecIngest)
    dbTable,      \* the committed cells of market_pattern_go
    dbTx,         \* the transaction of the running IngestPattern
    dbView,       \* the snapshot the last SearchPatterns query ran against
    dbLog         \* per batch: how its IngestPattern ended and what it wrote

VARIABLES
    \* ---- the label engine, checked alone (SpecLabels, SpecBulk)
    lHistory,     \* the history handed to CalculateLabels / CalculateBulkData
    lWindow,      \* PatternAI.VectorWindow of the agent
    lUpdates,     \* what CalculateLabels returned, or NotComputed
    lBulk         \* what CalculateBulkData returned, or NotComputed

VARIABLES
    \* ---- the requests of one PlaceTrade, checked alone (SpecOrders)
    trIn,         \* side, entry price, balance, settings and exchange filters
    trRun         \* PlaceTrade's locals and the requests it has sent

VARIABLES
    \* ---- the kline stream and the handler calls, checked alone (SpecStream)
    sArrived,     \* number of kline events the socket has received
    sInbox,       \* the events received and not yet read, oldest first
    sCalls        \* the handler calls made so far, in the order they were made

VARIABLES
    \* ---- the feature engine, checked alone (SpecFeatures)
    lFeature,     \* what CalculateFeatures returned, or NotComputed
    lSlope        \* what CalculateSlope returned, or NotComputed

VARIABLES
    \* ---- the live process on the pattern store, checked alone (SpecLive)
    gHandler,     \* the handler: the candle of its call and where it stands
    gTasks        \* per candle: the transaction of its background ingest

VARIABLES
    \* ---- one SearchPatterns query, checked alone (SpecSearch)
    qCall         \* the table, the query, k and the rows answered

VARIABLES
    \* ---- the audit-log queue and its consumer (SpecConsumer)
    cQueue,       \* the messages of the queue and where each stands
    cLog,         \* the rows of trading.signal_log
    cPc           \* where ConsumeTradingLogs stands, and with which message

mergeVars == <<mHistory, mLive, mReqWindow, mResult>>
dbVars == <<dbTable, dbTx, dbView, dbLog>>
labelVars == <<lHistory, lWindow, lUpdates, lBulk>>
tradeVars == <<trIn, trRun>>
streamVars == <<sArrived, sInbox, sCalls>>
featVars == <<lFeature, lSlope>>
liveVars == <<gHandler, gTasks>>
searchVars == <<qCall>>
consumerVars == <<cQueue, cLog, cPc>>
moreVars == <<featVars, liveVars, searchVars, consumerVars>>
\* The variables of the specifications that check one component alone.
otherVars == <<mergeVars, dbVars, labelVars, tradeVars, streamVars, moreVars>>
exchVars == <<position, orders, algos>>
procVars == <<pc, cycle>>
localVars == <<liveTime, window, dispatched, ingested, hasPos, signal, ops, toCancel, polls,
               quantity, tradeErr, outcome>>

vars == <<mHistory, mLive, mReqWindow, mResult, dbTable, dbTx, dbView, dbLog,
          lHistory, lWindow, lUpdates, lBulk, trIn, trRun, sArrived, sInbox, sCalls,
          lFeature, lSlope, gHandler, gTasks, qCall, cQueue, cLog, cPc,
          position, orders, algos, pc, cycle, liveTime, window, dispatched, ingested, hasPos, signal,
          ops, toCancel, polls, quantity, tradeErr, outcome>>

(***************************************************************************)
(* Constants of the program and bounds of the model.                       *)
(***************************************************************************)
\* part_008:29  IntervalSecs = 60 * 15
IntervalSecs == 900
\* Candle times are multiples of half an interval, so that a difference can
\* be smaller than, equal to or larger than IntervalSecs.
TimeStep == IntervalSecs \div 2
\* Largest candle time, in TimeSteps.
MaxTick == 7
\* Largest reqWindow handed to SafeMerge (the handler passes VectorWindow).
MaxWindow == 3

Times == {k * TimeStep : k \in 0..MaxTick}

(***************************************************************************)
(* ai.InputData: only Time and Close are kept.  In a REST history the      *)
(* close of the i-th kline is i, which makes every entry distinguishable;  *)
(* the live candle has close 0.                                            *)
(***************************************************************************)
InputData(t, c) == [time |-> t, close |-> c]

RECURSIVE SortedSeq(_)
\* The elements of a finite set of integers in increasing order.
SortedSeq(S) ==
    IF S = {} THEN <<>>
    ELSE LET m == CHOOSE x \in S : \A y \in S : x <= y
         IN <<m>> \o SortedSeq(S \ {m})

\* What the klines endpoint can answer: klines in increasing open time, any
\* of them possibly missing.
fetchRealHistory(S) ==
    LET ts == SortedSeq(S)
    IN [i \in 1..Len(ts) |-> InputData(ts[i], i)]

Histories == {fetchRealHistory(S) : S \in SUBSET Times}

\* The answers the handler meets: the klines of its own interval, whose open
\* times are multiples of IntervalSecs.
IntervalHistories ==
    {fetchRealHistory(S) : S \in SUBSET {t \in Times : t % IntervalSecs = 0}}

(***************************************************************************)
(* SafeMerge (part_008:372-401).                                           *)
(***************************************************************************)
\* Mutant: the candle of the live time itself is kept.
M_FilterOverlaps(history, live) ==
    SelectSeq(history, LAMBDA h : h.time <= live.time)

\* Step A: keep the candles strictly older than the live one.
FilterOverlaps(history, live) ==
    SelectSeq(history, LAMBDA h : h.time < live.time)

\* Mutant: the first reqWindow entries are taken.
M_SliceWindow(cleanHistory, reqWindow) ==
    SubSeq(cleanHistory, 1, reqWindow)

\* Step C: the last reqWindow entries of cleanHistory.
SliceWindow(cleanHistory, reqWindow) ==
    SubSeq(cleanHistory, Len(cleanHistory) - reqWindow + 1, Len(cleanHistory))

\* Mutant: only a missed candle is a gap.
M_GapCheckFails(neededHistory, live, intervalSecs) ==
    live.time - neededHistory[Len(neededHistory)].time > intervalSecs

\* Step D: the gap check compares the live candle with the last entry only.
GapCheckFails(neededHistory, live, intervalSecs) ==
    live.time - neededHistory[Len(neededHistory)].time # intervalSecs

SafeMerge(history, live, reqWindow, intervalSecs) ==
    LET cleanHistory == FilterOverlaps(history, live)
    IN  IF Len(cleanHistory) < reqWindow
        THEN [err |-> "InsufficientHistory", window |-> <<>>]
        ELSE LET neededHistory == SliceWindow(cleanHistory, reqWindow)
             IN  IF GapCheckFails(neededHistory, live, intervalSecs)
                 THEN [err |-> "ContinuityGap", window |-> <<>>]
                 ELSE [err |-> "nil", window |-> Append(neededHistory, live)]

NotRun == [err |-> "NotRun", window |-> <<>>]

(***************************************************************************)
(* Program constants and bounds of the handler model.                      *)
(***************************************************************************)
\* The reqWindow the handler passes: VectorWindow, 60 in part_008:30, scaled
\* down to a bound of the model.
VectorWindow == 2
\* part_008:32
signalConfidence == 30
\* llm/service.go:23
CONFIDENCE_THRESHOLD == 65
\* executor.go:112  WaitForBalanceRelease(ctx, 21.0)
MinExpectedBalance == 21
\* config.go:83  AviableTradeRatio 0.90, in percent
AviableTradeRatioPct == 90
\* config.go:84
Leverage == 3
\* Final candle-close events the model delivers.
MaxCycles == 2
\* Ticks of the balance poll before the 10 s timeout must have elapsed.
MaxPolls == 2
\* The larger of the two balances the account can show (the other is 0).
MaxBalance == 100

\* Balances the account can show: nothing, just below and just at the balance
\* whose buying power reaches MinExpectedBalance, and plenty.
Balances == {0, 7, 8, MaxBalance}
\* executor.go:322-334: what one balance fetch answers, (0, err) or (b, nil).
getUSDTAvailableBalance ==
    {[ok |-> FALSE, balance |-> 0]} \cup {[ok |-> TRUE, balance |-> b] : b \in Balances}
Sides == {"LONG", "SHORT"}
NoSignal == [side |-> "", conf |-> 0]
\* Confidences the decision service can answer, around both thresholds.
Confidences == {signalConfidence - 1, signalConfidence,
                CONFIDENCE_THRESHOLD - 1, CONFIDENCE_THRESHOLD}

Op(name, ok) == [op |-> name, ok |-> ok]

(***************************************************************************)
(* The exchange.  An entry is [cycle, side]; a conditional order is        *)
(* [cycle, kind, side] with side the closing side.  The available balance  *)
(* moves freely between two reads, so every read draws it from Balances.   *)
(***************************************************************************)
Signed(side) == IF side = "LONG" THEN 1 ELSE -1

\* A resting limit entry fills.
EntryFill ==
    \E o \in orders :
        /\ orders' = orders \ {o}
        /\ position' = position + Signed(o.side)
        /\ UNCHANGED algos
        /\ UNCHANGED <<otherVars, procVars, localVars>>

\* A reduce-only conditional order triggers against an open position.
AlgoTrigger ==
    \E a \in algos :
        /\ position # 0
        /\ Signed(a.side) * position < 0
        /\ algos' = algos \ {a}
        /\ position' = position + Signed(a.side)
        /\ UNCHANGED orders
        /\ UNCHANGED <<otherVars, procVars, localVars>>

(***************************************************************************)
(* wsHandler (part_008:94-300).                                            *)
(***************************************************************************)
ResetLocals ==
    /\ liveTime' = 0
    /\ window' = <<>>
    /\ dispatched' = FALSE
    /\ ingested' = FALSE
    /\ hasPos' = FALSE
    /\ signal' = NoSignal
    /\ ops' = <<>>
    /\ toCancel' = {}
    /\ polls' = 0
    /\ quantity' = ""
    /\ tradeErr' = "none"
    /\ outcome' = ""

\* The handler returns: `why` is kept until HandlerReturn.
Return(why) ==
    /\ pc' = "h_ret"
    /\ outcome' = why

\* Mutant: a failed call is made again.
M_AfterError(at) == at

\* part_008:121-124, 158-161, 168-169, 224-227: a failed fetch, position
\* check, search or verdict ends the handler.
AfterError(at) == "h_ret"

Failed(why) ==
    /\ pc' = AfterError(pc)
    /\ outcome' = why

\* Mutant: every kline event is taken for a closed candle.
M_AfterIsFinal(isFinal) == "h_fetch"

\* part_008:97-99: only an event flagged final goes on.
AfterIsFinal(isFinal) == IF isFinal THEN "h_fetch" ELSE "idle"

\* part_008:97-99: a non-final event returns at once.
WsEventNotFinal ==
    /\ pc = "idle"
    /\ pc' = AfterIsFinal(FALSE)
    /\ UNCHANGED <<cycle, localVars, otherVars, exchVars>>

\* part_008:94-116: a final event starts a cycle.
WsEventFinal ==
    /\ pc = "idle"
    /\ cycle < MaxCycles
    /\ cycle' = cycle + 1
    /\ liveTime' \in Times
    /\ pc' = AfterIsFinal(TRUE)
    /\ UNCHANGED <<window, dispatched, ingested, hasPos, signal, ops, toCancel, polls,
                   quantity, tradeErr, outcome>>
    /\ UNCHANGED <<otherVars, exchVars>>

\* Mutant: the error of SafeMerge is logged only.
M_AfterMerge(err) == "h_feature"

\* part_008:128-131: an error of SafeMerge ends the handler.
AfterMerge(err) == IF err # "nil" THEN "h_ret" ELSE "h_feature"

\* part_008:120-131: the REST fetch, then SafeMerge.
FetchAndMerge ==
    /\ pc = "h_fetch"
    /\ \/ Failed("fetchErr") /\ UNCHANGED window
       \/ \E history \in IntervalHistories :
            LET r == SafeMerge(history, InputData(liveTime, 0), VectorWindow,
                               IntervalSecs)
            IN  /\ pc' = AfterMerge(r.err)
                /\ window' = IF r.err # "nil" THEN window ELSE r.window
                /\ outcome' = IF r.err # "nil" THEN r.err ELSE outcome
    /\ UNCHANGED <<cycle, liveTime, dispatched, ingested, hasPos, signal, ops, toCancel,
                   polls, quantity, tradeErr>>
    /\ UNCHANGED <<otherVars, exchVars>>

\* slope_return_zscore_calculation.go:153-160: nil below N+1 candles.
CalculateFeaturesIsNil(history) == Len(history) < VectorWindow + 1

\* part_008:134-155: the feature, then the ingest goroutine is started with
\* the feature and the window.  The handler reads cleanWindow again only to
\* draw the candle chart, so the model drops it here.
FeatureAndSpawn ==
    /\ pc = "h_feature"
    /\ IF CalculateFeaturesIsNil(window)
       THEN Return("noFeature") /\ UNCHANGED dispatched
       ELSE /\ dispatched' = TRUE
            /\ pc' = "h_pos"
            /\ UNCHANGED outcome
    /\ window' = <<>>
    /\ liveTime' = 0
    /\ UNCHANGED <<cycle, ingested, hasPos, signal, ops, toCancel, polls,
                   quantity, tradeErr>>
    /\ UNCHANGED <<otherVars, exchVars>>

\* part_008:140-155: the goroutine returns, IngestPattern done or failed
\* (within its 5 s deadline); the handler call may be anywhere after the spawn.
IngestReturns ==
    /\ dispatched
    /\ ~ingested
    /\ pc # "idle"
    /\ ingested' = TRUE
    /\ UNCHANGED <<liveTime, window, dispatched, hasPos, signal, ops, toCancel,
                   polls, quantity, tradeErr, outcome>>
    /\ UNCHANGED <<otherVars, exchVars, procVars>>

\* Mutant: the handler joins the goroutine before it goes on.
M_IngestJoined(done) == done

\* part_008:155-157: nothing joins the goroutine (no WaitGroup, no channel):
\* the handler goes on whether or not it has returned.
IngestJoined(done) == TRUE

\* executor.go:46-66: exists iff the signed position amount is not zero.
HasOpenPosition(amt) == amt # 0

\* Mutant: the analysis goes on although a position is open.
M_AfterPositionCheck(has) == "h_search"

\* part_008:163-166: an open position ends the cycle.
AfterPositionCheck(has) == IF has THEN "h_ret" ELSE "h_search"

\* part_008:157-166
CheckPosition ==
    /\ pc = "h_pos"
    /\ IngestJoined(ingested)
    /\ \/ Failed("posErr") /\ UNCHANGED hasPos
       \/ /\ hasPos' = HasOpenPosition(position)
          /\ pc' = AfterPositionCheck(hasPos')
          /\ outcome' = IF pc' = "h_ret" THEN "inTrade" ELSE outcome
    /\ UNCHANGED <<cycle, liveTime, window, dispatched, ingested, signal, ops, toCancel,
                   polls, quantity, tradeErr>>
    /\ UNCHANGED <<otherVars, exchVars>>

\* part_008:168-169: the error of the search is never read; a failed search
\* has no match, and no match ends the handler.
SearchPatterns ==
    /\ pc = "h_search"
    /\ \/ Failed("searchErr")
       \/ Return("noMatch")
       \/ pc' = "h_prompt" /\ UNCHANGED outcome
    /\ UNCHANGED <<cycle, liveTime, window, dispatched, ingested, hasPos, signal, ops,
                   toCancel, polls, quantity, tradeErr>>
    /\ UNCHANGED <<otherVars, exchVars>>

\* part_008:183-221: the charts and the prompt.
GenerateTradingPrompt ==
    /\ pc = "h_prompt"
    /\ \/ Return("promptErr")
       \/ pc' = "h_signal" /\ UNCHANGED outcome
    /\ UNCHANGED <<cycle, liveTime, window, dispatched, ingested, hasPos, signal, ops,
                   toCancel, polls, quantity, tradeErr>>
    /\ UNCHANGED <<otherVars, exchVars>>

\* Mutant: the verdict is passed on as the service gave it.
M_FilterLowConfidence(sig) == sig

\* llm/service.go:475-480: a verdict below CONFIDENCE_THRESHOLD becomes HOLD.
FilterLowConfidence(sig) ==
    IF sig.conf < CONFIDENCE_THRESHOLD
    THEN [sig EXCEPT !.side = "HOLD"]
    ELSE sig

\* part_008:234-254: the confidence gate in front of PlaceTrade.
Gate(sig) ==
    IF sig.conf >= signalConfidence /\ sig.side \in {"SHORT", "LONG"}
    THEN "t_cancelOpen"
    ELSE "h_audit"

\* part_008:223-248
GenerateSignal ==
    /\ pc = "h_signal"
    /\ \/ Failed("llmErr") /\ UNCHANGED signal
       \/ \E side \in Sides \cup {"HOLD"}, conf \in Confidences :
            /\ signal' = FilterLowConfidence([side |-> side, conf |-> conf])
            /\ pc' = Gate(signal')
            /\ UNCHANGED outcome
    /\ UNCHANGED <<cycle, liveTime, window, dispatched, ingested, hasPos, ops, toCancel,
                   polls, quantity, tradeErr>>
    /\ UNCHANGED <<otherVars, exchVars>>

(***************************************************************************)
(* Executor.PlaceTrade (executor.go:99-201).  A step helper answers where  *)
(* PlaceTrade goes next and, when it returns, the error it returns.        *)
(***************************************************************************)
Goto(label) == [pc |-> label, err |-> "none"]
Fail(why) == [pc |-> "h_audit", err |-> why]

\* Mutant: the conditional orders are not cancelled.
M_AfterCancelOpen(ok) == Goto("t_wait")

\* executor.go:102-104: a failed CancelAllOpenOrders is logged only.
AfterCancelOpen(ok) == Goto("t_listAlgo")

\* executor.go:203-214
CancelAllOpenOrders ==
    /\ pc = "t_cancelOpen"
    /\ \E ok \in BOOLEAN :
        /\ orders' = IF ok THEN {} ELSE orders
        /\ ops' = Append(ops, Op("CancelAllOpenOrders", ok))
        /\ pc' = AfterCancelOpen(ok).pc
        /\ tradeErr' = AfterCancelOpen(ok).err
    /\ UNCHANGED <<position, algos, cycle, liveTime, window, dispatched, ingested,
                   hasPos, signal, toCancel, polls, quantity, outcome>>
    /\ UNCHANGED otherVars

\* executor.go:105-107, 223-233: a failed listing is logged only; an empty
\* listing needs no cancel.
AfterListAlgo(ok, openAlgos) ==
    IF ok /\ openAlgos # {} THEN Goto("t_cancelAlgo") ELSE Goto("t_wait")

\* executor.go:223-235
ListOpenAlgoOrders ==
    /\ pc = "t_listAlgo"
    /\ \E ok \in BOOLEAN :
        /\ toCancel' = IF ok THEN algos ELSE {}
        /\ ops' = Append(ops, Op("ListOpenAlgoOrders", ok))
        /\ pc' = AfterListAlgo(ok, algos).pc
        /\ tradeErr' = AfterListAlgo(ok, algos).err
    /\ UNCHANGED <<cycle, liveTime, window, dispatched, ingested, hasPos, signal, polls,
                   quantity, outcome>>
    /\ UNCHANGED <<otherVars, exchVars>>

\* Mutant: a conditional order that cannot be cancelled ends PlaceTrade.
M_AfterCancelAlgo(ok, rest) ==
    IF ~ok THEN Fail("cancelAlgo")
    ELSE IF rest = {} THEN Goto("t_wait") ELSE Goto("t_cancelAlgo")

\* executor.go:238-250: a failed cancel is logged and the loop goes on.
AfterCancelAlgo(ok, rest) ==
    IF rest = {} THEN Goto("t_wait") ELSE Goto("t_cancelAlgo")

\* executor.go:238-248: one turn of the loop.  An order that triggered since
\* the listing is gone, and its cancel fails.  The loop has one entry in ops,
\* ok while every cancel of it succeeded.
CancelAlgoOrder ==
    /\ pc = "t_cancelAlgo"
    /\ LET a == CHOOSE x \in toCancel : TRUE
       IN \E ok \in BOOLEAN :
            /\ ok => a \in algos
            /\ algos' = IF ok THEN algos \ {a} ELSE algos
            /\ toCancel' = toCancel \ {a}
            /\ ops' = IF ops[Len(ops)].op = "CancelAlgoOrder"
                       THEN [ops EXCEPT ![Len(ops)].ok = @ /\ ok]
                       ELSE Append(ops, Op("CancelAlgoOrder", ok))
            /\ pc' = AfterCancelAlgo(ok, toCancel').pc
            /\ tradeErr' = AfterCancelAlgo(ok, toCancel').err
    /\ UNCHANGED <<position, orders, cycle, liveTime,
                   window, dispatched, ingested, hasPos, signal, polls, quantity, outcome>>
    /\ UNCHANGED otherVars

\* executor.go:386-387: usdtToTrade >= minExpectedBalance.
BalanceRecovered(b) ==
    b * AviableTradeRatioPct * Leverage >= MinExpectedBalance * 100

\* Mutant: a wait that timed out ends PlaceTrade.
M_AfterWait(ok) == IF ok THEN Goto("t_size") ELSE Fail("wait")

\* executor.go:112-115: the timeout of the wait is logged only.
AfterWait(ok) == Goto("t_size")

\* executor.go:378-390: one tick of the poll, whose balance fetch answers r.
\* A failed fetch and a balance too low go round the loop again.  Ticks past
\* MaxPolls are not counted.
WaitPollRead(r) ==
    /\ pc = "t_wait"
    /\ IF r.ok /\ BalanceRecovered(r.balance)
       THEN /\ ops' = Append(ops, Op("WaitForBalanceRelease", TRUE))
            /\ pc' = AfterWait(TRUE).pc
            /\ tradeErr' = AfterWait(TRUE).err
            /\ polls' = 0
       ELSE /\ polls' = IF polls < MaxPolls THEN polls + 1 ELSE polls
            /\ UNCHANGED <<pc, ops, tradeErr>>
    /\ UNCHANGED <<cycle, liveTime, window, dispatched, ingested, hasPos, signal,
                   toCancel, quantity, outcome>>
    /\ UNCHANGED <<otherVars, exchVars>>

WaitPoll == \E r \in getUSDTAvailableBalance : WaitPollRead(r)

\* Mutant: the timer never fires.
M_TimeoutElapsed(p) == FALSE

\* executor.go:370: the 10 s timer, started before the first tick of the
\* 200 ms ticker, fires at some moment after that tick.
TimeoutElapsed(p) == p >= 1

\* executor.go:376-377: the timer has fired and the select takes it.
WaitTimeout ==
    /\ pc = "t_wait"
    /\ TimeoutElapsed(polls)
    /\ ops' = Append(ops, Op("WaitForBalanceRelease", FALSE))
    /\ pc' = AfterWait(FALSE).pc
    /\ tradeErr' = AfterWait(FALSE).err
    /\ polls' = 0
    /\ UNCHANGED <<cycle, liveTime, window, dispatched, ingested, hasPos, signal, toCancel,
                   quantity, outcome>>
    /\ UNCHANGED <<otherVars, exchVars>>

\* executor.go:264-273, 359-363: the quantity string, floored to the step,
\* by its kind: "zero" when there is no buying power, else "positive" (the
\* digits are worked out under SpecOrders).
QuantityKind(b) ==
    IF b * AviableTradeRatioPct * Leverage > 0 THEN "positive" ELSE "zero"

\* executor.go:117-121: the error of CalculateQuantity is overwritten unread.
AfterSize(ok) == Goto("t_fmtSL")

\* executor.go:117, 253-280: the balance, then the exchange filters; the
\* quantity is "" when either fetch fails.
CalculateQuantity ==
    /\ pc = "t_size"
    /\ \/ /\ quantity' = ""
          /\ ops' = Append(ops, Op("GetBalance", FALSE))
          /\ pc' = AfterSize(FALSE).pc
          /\ tradeErr' = AfterSize(FALSE).err
       \/ /\ quantity' = ""
          /\ ops' = ops \o <<Op("GetBalance", TRUE), Op("ExchangeInfo", FALSE)>>
          /\ pc' = AfterSize(FALSE).pc
          /\ tradeErr' = AfterSize(FALSE).err
       \/ \E b \in Balances :
            /\ quantity' = QuantityKind(b)
            /\ ops' = ops \o <<Op("GetBalance", TRUE), Op("ExchangeInfo", TRUE)>>
            /\ pc' = AfterSize(TRUE).pc
            /\ tradeErr' = AfterSize(TRUE).err
    /\ UNCHANGED <<cycle, liveTime, window, dispatched, ingested, hasPos, signal, toCancel,
                   polls, outcome>>
    /\ UNCHANGED <<otherVars, exchVars>>

\* executor.go:121-129: a failed FormatPrice returns before any order.
AfterFormatSL(ok) == IF ok THEN Goto("t_fmtTP") ELSE Fail("formatSL")
AfterFormatTP(ok) == IF ok THEN Goto("t_entry") ELSE Fail("formatTP")

\* executor.go:121-124, 396-429
FormatSLPrice ==
    /\ pc = "t_fmtSL"
    /\ \E ok \in BOOLEAN :
        /\ ops' = Append(ops, Op("ExchangeInfo", ok))
        /\ pc' = AfterFormatSL(ok).pc
        /\ tradeErr' = AfterFormatSL(ok).err
    /\ UNCHANGED <<cycle, liveTime, window, dispatched, ingested, hasPos, signal, toCancel,
                   polls, quantity, outcome>>
    /\ UNCHANGED <<otherVars, exchVars>>

\* executor.go:126-129, 396-429
FormatTPPrice ==
    /\ pc = "t_fmtTP"
    /\ \E ok \in BOOLEAN :
        /\ ops' = Append(ops, Op("ExchangeInfo", ok))
        /\ pc' = AfterFormatTP(ok).pc
        /\ tradeErr' = AfterFormatTP(ok).err
    /\ UNCHANGED <<cycle, liveTime, window, dispatched, ingested, hasPos, signal, toCancel,
                   polls, quantity, outcome>>
    /\ UNCHANGED <<otherVars, exchVars>>

\* Mutant: the protective orders are placed on the side of the entry.
M_closeSide(side) == side

\* executor.go:132-139
closeSide(side) == IF side = "LONG" THEN "SHORT" ELSE "LONG"

\* Mutant: the error of the entry is logged only.
M_AfterEntry(ok) == Goto("t_sl")

\* executor.go:156-158: a failed entry returns the error.
AfterEntry(ok) == IF ok THEN Goto("t_sl") ELSE Fail("entry")

\* executor.go:146-159: the limit entry.  The exchange takes no order whose
\* quantity is empty or zero.
PlaceEntry ==
    /\ pc = "t_entry"
    /\ \E ok \in BOOLEAN :
        /\ ok => quantity = "positive"
        /\ orders' = IF ok
                     THEN orders \cup {[cycle |-> cycle, side |-> signal.side]}
                     ELSE orders
        /\ ops' = Append(ops, Op("CreateOrder", ok))
        /\ pc' = AfterEntry(ok).pc
        /\ tradeErr' = AfterEntry(ok).err
    /\ UNCHANGED <<position, algos, cycle, liveTime, window, dispatched, ingested,
                   hasPos, signal, toCancel, polls, quantity, outcome>>
    /\ UNCHANGED otherVars

\* Mutant: a failed stop-loss returns the error.
M_AfterStopLoss(ok) == IF ok THEN Goto("t_tp") ELSE Fail("stopLoss")

\* executor.go:175-179: a failed stop-loss is logged only.
AfterStopLoss(ok) == Goto("t_tp")

\* executor.go:165-179
PlaceStopLoss ==
    /\ pc = "t_sl"
    /\ \E ok \in BOOLEAN :
        /\ algos' = IF ok
                    THEN algos \cup {[cycle |-> cycle, kind |-> "SL",
                                      side |-> closeSide(signal.side)]}
                    ELSE algos
        /\ ops' = Append(ops, Op("CreateAlgoSL", ok))
        /\ pc' = AfterStopLoss(ok).pc
        /\ tradeErr' = AfterStopLoss(ok).err
    /\ UNCHANGED <<position, orders, cycle, liveTime,
                   window, dispatched, ingested, hasPos, signal, toCancel, polls, quantity, outcome>>
    /\ UNCHANGED otherVars

\* executor.go:194-200: a failed take-profit is logged only; PlaceTrade
\* returns nil.
AfterTakeProfit(ok) == [pc |-> "h_audit", err |-> "nil"]

\* executor.go:184-200
PlaceTakeProfit ==
    /\ pc = "t_tp"
    /\ \E ok \in BOOLEAN :
        /\ algos' = IF ok
                    THEN algos \cup {[cycle |-> cycle, kind |-> "TP",
                                      side |-> closeSide(signal.side)]}
                    ELSE algos
        /\ ops' = Append(ops, Op("CreateAlgoTP", ok))
        /\ pc' = AfterTakeProfit(ok).pc
        /\ tradeErr' = AfterTakeProfit(ok).err
    /\ UNCHANGED <<position, orders, cycle, liveTime,
                   window, dispatched, ingested, hasPos, signal, toCancel, polls, quantity, outcome>>
    /\ UNCHANGED otherVars

\* part_008:258-294, sqs/put.go:19-39: the errors of the uploads are
\* overwritten unread and the notifier logs its own; PutTradingLog ends the
\* process (log.Fatalf) when the queue send fails.
AfterAudit(uploadOk, sendOk, notifyOk) == IF sendOk THEN "h_ret" ELSE "exited"

\* part_008:245-298: the error of PlaceTrade is logged; the uploads, the
\* queue record and the notifications follow.  The record is in the queue
\* when the outcome is "done"; a process that has exited has no locals.
AuditAndNotify ==
    /\ pc = "h_audit"
    /\ \E to \in {AfterAudit(uploadOk, sendOk, notifyOk) :
                        uploadOk \in BOOLEAN, sendOk \in BOOLEAN, notifyOk \in BOOLEAN} :
        /\ pc' = to
        /\ IF pc' = "exited"
           THEN ResetLocals
           ELSE /\ outcome' = "done"
                /\ UNCHANGED <<liveTime, window, dispatched, ingested, hasPos,
                               signal, ops, toCancel, polls, quantity, tradeErr>>
    /\ UNCHANGED cycle
    /\ UNCHANGED <<otherVars, exchVars>>

\* The handler call is over; the stream delivers the next event.
HandlerReturn ==
    /\ pc = "h_ret"
    /\ pc' = "idle"
    /\ ResetLocals
    /\ UNCHANGED cycle
    /\ UNCHANGED <<otherVars, exchVars>>

\* The deadlines, in seconds, of the external calls made at a step of the
\* handler; 0 is a call without one (context.Background() or context.TODO()
\* and a client without a timeout).  part_008:332 (fetch, 2 s), 157 (position
\* check), 168 (search), 218 (notification: the 10 s of discord.go:27), 223
\* (verdict: the 60 s of llm/service.go:47), 242 (PlaceTrade, 60 s), 256-294
\* (uploads 20 s, queue send of sqs/put.go:18, notifications 10 s).
Deadline(at) ==
    CASE at = "h_fetch" -> {2}
      [] at = "h_pos" -> {0}
      [] at = "h_search" -> {0}
      [] at = "h_prompt" -> {10}
      [] at = "h_signal" -> {60}
      [] at \in {"t_cancelOpen", "t_listAlgo", "t_cancelAlgo", "t_wait", "t_size",
                 "t_fmtSL", "t_fmtTP", "t_entry", "t_sl", "t_tp"} -> {60}
      [] at = "h_audit" -> {20, 0, 10}
      [] OTHER -> {}

(***************************************************************************)
(* The label engine (ai/slope_return_zscore_calculation.go).  Go indexes   *)
(* from 0: At(history, i) is history[i].  A float64 value is kept exactly, *)
(* as the fraction (a + e / epsilon) / den in lowest terms, where epsilon  *)
(* is the 1e-9 that stands in for a zero start price, so that values are   *)
(* equal exactly when the fractions are.                                   *)
(***************************************************************************)
RECURSIVE GCD(_, _)
GCD(x, y) == IF y = 0 THEN x ELSE GCD(y, x % y)
Abs(x) == IF x < 0 THEN -x ELSE x

\* The value (a + e / epsilon) / den, den > 0, in lowest terms.
Rat(a, e, den) ==
    LET g == GCD(GCD(Abs(a), Abs(e)), den)
    IN  [a |-> a \div g, e |-> e \div g, den |-> den \div g]

RECURSIVE SumSeq(_)
SumSeq(xs) == IF xs = <<>> THEN 0 ELSE Head(xs) + SumSeq(Tail(xs))

At(history, i) == history[i + 1]
\* The closes of history[from .. to], both included.
ClosesOf(history, from, to) ==
    [k \in 1..(to - from + 1) |-> At(history, from + k - 1).close]

\* slope_return_zscore_calculation.go:70-103.  With x = 0..n-1 and
\* yNorm = (price - startVal) / startVal the code sums sumXY += x + yNorm, so
\* numerator = n * (sumX + sumY) - sumX * sumY; sumY is
\* (sum(prices) - n * startVal) / startVal, or sum(prices) / epsilon - n
\* when the series starts at zero.
CalculateSlope(prices) ==
    LET n == Len(prices)
        startVal == prices[1]
        sumX == SumSeq([i \in 1..n |-> i - 1])
        sumX2 == SumSeq([i \in 1..n |-> (i - 1) * (i - 1)])
        denominator == n * sumX2 - sumX * sumX
    IN  IF n < 2 \/ denominator = 0 THEN Rat(0, 0, 1)
        ELSE IF startVal # 0
        THEN Rat(n * sumX * startVal
                    + (n - sumX) * (SumSeq(prices) - n * startVal),
                 0, startVal * denominator)
        ELSE Rat(n * sumX - (n - sumX) * n, (n - sumX) * SumSeq(prices),
                 denominator)

LabelUpdate(t, col, v) == [TargetTime |-> t, Column |-> col, Value |-> v]

\* Mutant: the return label is attached to the current candle.
M_PrevIdx(n) == n - 1

\* slope_return_zscore_calculation.go:199
PrevIdx(n) == n - 2

\* Mutant: the slope of three candles is attached to its first candle.
M_TargetIdx3(n) == n - 3

\* slope_return_zscore_calculation.go:217
TargetIdx3(n) == n - 4

\* slope_return_zscore_calculation.go:235
TargetIdx5(n) == n - 6

\* slope_return_zscore_calculation.go:190-252
CalculateLabels(history) ==
    LET n == Len(history)
        prevClose == At(history, PrevIdx(n)).close
        currClose == At(history, n - 1).close
        labelA ==
            IF prevClose # 0
            THEN <<LabelUpdate(At(history, PrevIdx(n)).time, "next_return",
                               Rat(currClose - prevClose, 0, prevClose))>>
            ELSE <<>>
        labelB ==
            IF TargetIdx3(n) >= 0
            THEN <<LabelUpdate(At(history, TargetIdx3(n)).time, "next_slope_3",
                               CalculateSlope(ClosesOf(history, n - 3, n - 1)))>>
            ELSE <<>>
        labelC ==
            IF TargetIdx5(n) >= 0
            THEN <<LabelUpdate(At(history, TargetIdx5(n)).time, "next_slope_5",
                               CalculateSlope(ClosesOf(history, TargetIdx5(n) + 1,
                                                       n - 1)))>>
            ELSE <<>>
    IN  IF n < 2 THEN <<>> ELSE labelA \o labelB \o labelC

\* slope_return_zscore_calculation.go:153-186, for an agent whose
\* VectorWindow is N: nil below N + 1 candles, else tagged with the time and
\* the close of the last candle.
CalculateFeatures(N, history) ==
    LET reqLen == N + 1
        lastCandle == history[Len(history)]
    IN  IF Len(history) < reqLen
        THEN [nil |-> TRUE, Time |-> 0, ClosePrice |-> 0]
        ELSE [nil |-> FALSE, Time |-> lastCandle.time,
              ClosePrice |-> lastCandle.close]

\* Mutant: the window of row i is one candle short.
M_WindowStart(i, N) == i - N + 1

\* slope_return_zscore_calculation.go:275
WindowStart(i, N) == i - N

\* Mutant: the look-ahead starts at the row itself.
M_LookAhead(fullHistory, i, h) == ClosesOf(fullHistory, i, i + h - 1)

\* slope_return_zscore_calculation.go:306-309, 320-323: the closes of the h
\* candles after row i.
LookAhead(fullHistory, i, h) == ClosesOf(fullHistory, i + 1, i + h)

\* slope_return_zscore_calculation.go:288-330: the labels of row i.
BulkLabels(fullHistory, i, feature) ==
    LET len == Len(fullHistory)
        currClose == At(fullHistory, i).close
        nextClose == At(fullHistory, i + 1).close
        labelA ==
            IF i + 1 < len /\ currClose # 0
            THEN <<LabelUpdate(feature.Time, "next_return",
                               Rat(nextClose - currClose, 0, currClose))>>
            ELSE <<>>
        labelB ==
            IF i + 3 < len
            THEN <<LabelUpdate(feature.Time, "next_slope_3",
                               CalculateSlope(LookAhead(fullHistory, i, 3)))>>
            ELSE <<>>
        labelC ==
            IF i + 5 < len
            THEN <<LabelUpdate(feature.Time, "next_slope_5",
                               CalculateSlope(LookAhead(fullHistory, i, 5)))>>
            ELSE <<>>
    IN  labelA \o labelB \o labelC

\* slope_return_zscore_calculation.go:267-336: one turn of the loop, the
\* results it appends (none when the feature is nil).
BulkRow(N, fullHistory, i) ==
    LET currentSlice ==
            SubSeq(fullHistory, WindowStart(i, N) + 1, i + 1)
        feature == CalculateFeatures(N, currentSlice)
    IN  IF feature.nil THEN <<>>
        ELSE <<[Features |-> feature,
                Labels |-> BulkLabels(fullHistory, i, feature)]>>

RECURSIVE BulkFrom(_, _, _)
BulkFrom(N, fullHistory, i) ==
    IF i < Len(fullHistory)
    THEN BulkRow(N, fullHistory, i) \o BulkFrom(N, fullHistory, i + 1)
    ELSE <<>>

\* slope_return_zscore_calculation.go:259-339
CalculateBulkData(N, fullHistory) == BulkFrom(N, fullHistory, N)

\* Longest history handed to the label engine.
MaxHist == 7
\* Closing prices: zero (an unparsable price, part_008:403-406) and two
\* others.
Closes == {0, 1, 2}
\* The history of TestCalculateBulkData (part_006:98-105).
TestHistory ==
    <<InputData(100, 10), InputData(200, 11), InputData(300, 12),
      InputData(400, 13), InputData(500, 14), InputData(600, 15)>>
\* Histories of consecutive candles, and the one of the test.
LabelHistories ==
    UNION {[1..n -> Closes] : n \in 0..MaxHist}
LabelInputs ==
    {[i \in 1..Len(cs) |-> InputData(i * IntervalSecs, cs[i])] :
        cs \in LabelHistories} \cup {TestHistory}
NotComputed == [done |-> FALSE, out |-> <<>>]
Computed(out) == [done |-> TRUE, out |-> out]

(***************************************************************************)
(* The pattern store (database/postgres.go).  The table market_pattern_go  *)
(* is a set of cells [row, col, by]: row is the candle (the key time, in   *)
(* candles), col is "feature" for the row itself (embedding, close price)  *)
(* or a label column, and by is the batch (the candle whose IngestPattern  *)
(* wrote it).  PostgreSQL keeps the statements of an open transaction to   *)
(* that transaction until it commits, and a single SELECT reads one        *)
(* snapshot of the committed table.                                        *)
(***************************************************************************)
\* IngestPattern calls the model makes, one per closed candle.
MaxBatches == 4

LabelColumns == <<"next_return", "next_slope_3", "next_slope_5">>

\* Mutant: the labels are attached to the current candle.
M_Horizon(col) == 0

\* slope_return_zscore_calculation.go:199, 217, 235: how many candles before
\* the current one the label of a column targets.
Horizon(col) ==
    CASE col = "next_return" -> 1
      [] col = "next_slope_3" -> 3
      [] col = "next_slope_5" -> 5

Cell(row, col, by) == [row |-> row, col |-> col, by |-> by]
RowExists(cells, k) == \E c \in cells : c.row = k /\ c.col = "feature"

\* The labels handed to IngestPattern with the feature of candle b: the
\* window of the handler is long enough for all three, and a target may lie
\* before the first stored row.
LabelsOf(b) ==
    [i \in 1..Len(LabelColumns) |->
        [col |-> LabelColumns[i], target |-> b - Horizon(LabelColumns[i])]]

\* Mutant: the statement goes to the pool, not to the transaction.
M_Exec(table, pending, cell) ==
    [table |-> table \cup {cell}, pending |-> pending]

\* postgres.go:64, 91: tx.Exec / tx.SendBatch run inside the transaction.
Exec(table, pending, cell) ==
    [table |-> table, pending |-> pending \cup {cell}]

TxClosed(b) == [pc |-> "none", batch |-> b, pending |-> {}, queue |-> <<>>]

\* postgres.go:45: the deferred Rollback after an error: the pending
\* statements are dropped.
Rollback ==
    /\ dbTx' = TxClosed(dbTx.batch)
    /\ dbLog' = [dbLog EXCEPT ![dbTx.batch] = "failed"]
    /\ UNCHANGED dbTable

\* postgres.go:41-44: Pool.Begin.
IngestBegin ==
    /\ dbTx.pc = "none"
    /\ dbTx.batch < MaxBatches
    /\ LET b == dbTx.batch + 1
       IN \E ok \in BOOLEAN :
            IF ok
            THEN /\ dbTx' = [pc |-> "upsert", batch |-> b, pending |-> {},
                             queue |-> LabelsOf(b)]
                 /\ dbLog' = [dbLog EXCEPT ![b] = "open"]
            ELSE /\ dbTx' = TxClosed(b)
                 /\ dbLog' = [dbLog EXCEPT ![b] = "failed"]
    /\ UNCHANGED <<dbTable, dbView>>
    /\ UNCHANGED <<mergeVars, labelVars, tradeVars, streamVars, moreVars, exchVars, procVars, localVars>>

\* postgres.go:49-73: the upsert of the current feature.
IngestUpsert ==
    /\ dbTx.pc = "upsert"
    /\ \/ Rollback
       \/ LET r == Exec(dbTable, dbTx.pending,
                        Cell(dbTx.batch, "feature", dbTx.batch))
          IN /\ dbTable' = r.table
             /\ dbTx' = [dbTx EXCEPT !.pc = "labels", !.pending = r.pending]
             /\ UNCHANGED dbLog
    /\ UNCHANGED dbView
    /\ UNCHANGED <<mergeVars, labelVars, tradeVars, streamVars, moreVars, exchVars, procVars, localVars>>

\* postgres.go:77-96: one UPDATE of the label batch.  An UPDATE whose row
\* does not exist changes nothing and is no error.
IngestLabel ==
    /\ dbTx.pc = "labels"
    /\ \/ Rollback
       \/ LET l == Head(dbTx.queue)
              hit == RowExists(dbTable \cup dbTx.pending, l.target)
              r == IF hit
                   THEN Exec(dbTable, dbTx.pending,
                             Cell(l.target, l.col, dbTx.batch))
                   ELSE [table |-> dbTable, pending |-> dbTx.pending]
          IN /\ dbTable' = r.table
             /\ dbTx' = [dbTx EXCEPT
                            !.pc = IF Tail(dbTx.queue) = <<>> THEN "commit"
                                   ELSE "labels",
                            !.pending = r.pending,
                            !.queue = Tail(dbTx.queue)]
             /\ UNCHANGED dbLog
    /\ UNCHANGED dbView
    /\ UNCHANGED <<mergeVars, labelVars, tradeVars, streamVars, moreVars, exchVars, procVars, localVars>>

\* postgres.go:98: Commit makes the pending statements visible at once.
IngestCommit ==
    /\ dbTx.pc = "commit"
    /\ \/ Rollback
       \/ /\ dbTable' = dbTable \cup dbTx.pending
          /\ dbTx' = TxClosed(dbTx.batch)
          /\ dbLog' = [dbLog EXCEPT ![dbTx.batch] = "committed"]
    /\ UNCHANGED dbView
    /\ UNCHANGED <<mergeVars, labelVars, tradeVars, streamVars, moreVars, exchVars, procVars, localVars>>

\* postgres.go:173-185: the SELECT of SearchPatterns reads one snapshot.
SearchQuery ==
    /\ dbView' = dbTable
    /\ UNCHANGED <<dbTable, dbTx, dbLog>>
    /\ UNCHANGED <<mergeVars, labelVars, tradeVars, streamVars, moreVars, exchVars, procVars, localVars>>

\* postgres.go:180: the rows the query answers, those with next_return.
SearchResult(view) ==
    {c \in view : \E d \in view : d.row = c.row /\ d.col = "next_return"}

\* Histories the backfill downloads: consecutive candles from the first one
\* on, a few more than the live ingests store.
BackfillHistories ==
    {[i \in 1..Len(cs) |-> InputData(i * IntervalSecs, cs[i])] :
        cs \in UNION {[1..n -> Closes] : n \in 0..(MaxBatches + 1)}}

\* postgres.go:131-143: the columns of one result whose pointer is set; the
\* others are sent as NULL.
ColumnsOf(res) == {res.Labels[i].Column : i \in 1..Len(res.Labels)}

\* postgres.go:121-155: the statements BulkSave queues for the results of a
\* history, one per result: the row (its time, in candles) and the label
\* columns it sends a value for.
BulkStatements(results) ==
    {[row |-> results[i].Features.Time \div IntervalSecs,
      cols |-> ColumnsOf(results[i])] : i \in 1..Len(results)}

\* What a run of the backfill can hand to BulkSave (go.mod:105-117, with the
\* window of the model).
BackfillBatches ==
    {BulkStatements(CalculateBulkData(VectorWindow, h)) : h \in BackfillHistories}

\* postgres.go:114-118: on a conflict the three label columns are set to the
\* values sent, NULL included: what the row had in them is gone.
Excluded(cells, st) ==
    {c \in cells : c.row = st.row /\ c.col # "feature"}

\* postgres.go:110-118: one INSERT ... ON CONFLICT DO UPDATE.  The row keeps
\* its key; batch 0 is the backfill.
BulkUpsert(cells, st) ==
    (cells \ Excluded(cells, st))
        \cup (IF RowExists(cells, st.row) THEN {} ELSE {Cell(st.row, "feature", 0)})
        \cup {Cell(st.row, col, 0) : col \in st.cols}

RECURSIVE BulkApply(_, _)
BulkApply(cells, sts) ==
    IF sts = {} THEN cells
    ELSE LET st == CHOOSE x \in sts : TRUE
         IN  BulkApply(BulkUpsert(cells, st), sts \ {st})

\* postgres.go:106-163: BulkSave sends the statements as one batch on the
\* pool, which the server runs as one implicit transaction: all of them
\* apply or none does.
BulkSave ==
    /\ \E sts \in BackfillBatches, ok \in BOOLEAN :
         dbTable' = IF ok THEN BulkApply(dbTable, sts) ELSE dbTable
    /\ UNCHANGED <<dbTx, dbView, dbLog>>
    /\ UNCHANGED <<mergeVars, labelVars, tradeVars, streamVars, moreVars, exchVars, procVars, localVars>>

(***************************************************************************)
(* The live process on the pattern store (part_008:94-169).  The handler   *)
(* takes the candles one after the other; for each it starts the ingest in *)
(* a goroutine of its own (140-155) and goes on to the position check and  *)
(* the similarity search, so the ingests of several candles and the search *)
(* run side by side.  Each ingest is the transaction of IngestPattern; an  *)
(* UPDATE sees the committed rows and the statements of its own            *)
(* transaction.                                                            *)
(***************************************************************************)
\* Candles the live process handles in a run.
MaxCandles == 3

NoTask == [pc |-> "none", pending |-> {}, queue |-> <<>>]
TaskOver(how) == [pc |-> how, pending |-> {}, queue |-> <<>>]
InFlight(task) == task.pc \in {"begin", "upsert", "labels", "commit"}

\* part_008:94-139: a final event; the fetch, the merge or the feature can
\* end the call before anything is started.
LiveEvent ==
    /\ gHandler.pc = "idle"
    /\ gHandler.candle < MaxCandles
    /\ \E ok \in BOOLEAN :
         gHandler' = [gHandler EXCEPT !.candle = @ + 1,
                                      !.pc = IF ok THEN "spawn" ELSE "idle"]
    /\ UNCHANGED <<gTasks, dbVars>>
    /\ UNCHANGED <<mergeVars, labelVars, tradeVars, streamVars, featVars, searchVars,
                   consumerVars, exchVars, procVars, localVars>>

\* part_008:140-155: go func: the ingest of the candle starts.
LiveSpawn ==
    /\ gHandler.pc = "spawn"
    /\ gTasks' = [gTasks EXCEPT ![gHandler.candle] =
                     [pc |-> "begin", pending |-> {},
                      queue |-> LabelsOf(gHandler.candle)]]
    /\ gHandler' = [gHandler EXCEPT !.pc = "position"]
    /\ UNCHANGED dbVars
    /\ UNCHANGED <<mergeVars, labelVars, tradeVars, streamVars, featVars, searchVars,
                   consumerVars, exchVars, procVars, localVars>>

\* part_008:157-166: the position check; the call returns on an error or on
\* an open position.
LivePosition ==
    /\ gHandler.pc = "position"
    /\ \E goesOn \in BOOLEAN :
         gHandler' = [gHandler EXCEPT !.pc = IF goesOn THEN "search" ELSE "idle"]
    /\ UNCHANGED <<gTasks, dbVars>>
    /\ UNCHANGED <<mergeVars, labelVars, tradeVars, streamVars, featVars, searchVars,
                   consumerVars, exchVars, procVars, localVars>>

\* part_008:168, postgres.go:173-185: the search of the candle reads one
\* snapshot; the rest of the call touches the store no more.
LiveSearch ==
    /\ gHandler.pc = "search"
    /\ dbView' = dbTable
    /\ gHandler' = [gHandler EXCEPT !.pc = "idle", !.searched = gHandler.candle]
    /\ UNCHANGED <<gTasks, dbTable, dbTx, dbLog>>
    /\ UNCHANGED <<mergeVars, labelVars, tradeVars, streamVars, featVars, searchVars,
                   consumerVars, exchVars, procVars, localVars>>

\* postgres.go:41-44
TaskBegin(b) ==
    /\ gTasks[b].pc = "begin"
    /\ gTasks' = [gTasks EXCEPT ![b].pc = "upsert"]
    /\ UNCHANGED <<gHandler, dbVars>>
    /\ UNCHANGED <<mergeVars, labelVars, tradeVars, streamVars, featVars, searchVars,
                   consumerVars, exchVars, procVars, localVars>>

\* postgres.go:49-73
TaskUpsert(b) ==
    /\ gTasks[b].pc = "upsert"
    /\ LET r == Exec(dbTable, gTasks[b].pending, Cell(b, "feature", b))
       IN /\ dbTable' = r.table
          /\ gTasks' = [gTasks EXCEPT ![b].pc = "labels", ![b].pending = r.pending]
    /\ UNCHANGED <<gHandler, dbTx, dbView, dbLog>>
    /\ UNCHANGED <<mergeVars, labelVars, tradeVars, streamVars, featVars, searchVars,
                   consumerVars, exchVars, procVars, localVars>>

\* postgres.go:77-96: one UPDATE of the label batch; it changes the row it
\* names when the transaction sees that row.
TaskLabel(b) ==
    /\ gTasks[b].pc = "labels"
    /\ LET task == gTasks[b]
           l == Head(task.queue)
           hit == RowExists(dbTable \cup task.pending, l.target)
           r == IF hit
                THEN Exec(dbTable, task.pending, Cell(l.target, l.col, b))
                ELSE [table |-> dbTable, pending |-> task.pending]
       IN /\ dbTable' = r.table
          /\ gTasks' = [gTasks EXCEPT
                           ![b].pc = IF Tail(task.queue) = <<>> THEN "commit"
                                     ELSE "labels",
                           ![b].pending = r.pending,
                           ![b].queue = Tail(task.queue)]
    /\ UNCHANGED <<gHandler, dbTx, dbView, dbLog>>
    /\ UNCHANGED <<mergeVars, labelVars, tradeVars, streamVars, featVars, searchVars,
                   consumerVars, exchVars, procVars, localVars>>

\* postgres.go:98
TaskCommit(b) ==
    /\ gTasks[b].pc = "commit"
    /\ dbTable' = dbTable \cup gTasks[b].pending
    /\ gTasks' = [gTasks EXCEPT ![b] = TaskOver("committed")]
    /\ UNCHANGED <<gHandler, dbTx, dbView, dbLog>>
    /\ UNCHANGED <<mergeVars, labelVars, tradeVars, streamVars, featVars, searchVars,
                   consumerVars, exchVars, procVars, localVars>>

\* postgres.go:42-45, 71-73, 93-95, part_008:141: a statement fails or the
\* 5 s of the task run out: the deferred Rollback drops what is pending.
TaskFail(b) ==
    /\ InFlight(gTasks[b])
    /\ gTasks' = [gTasks EXCEPT ![b] = TaskOver("failed")]
    /\ UNCHANGED <<gHandler, dbVars>>
    /\ UNCHANGED <<mergeVars, labelVars, tradeVars, streamVars, featVars, searchVars,
                   consumerVars, exchVars, procVars, localVars>>

(***************************************************************************)
(* One SearchPatterns query (postgres.go:165-227).  A row of the table is  *)
(* [time, labelled, distance]: labelled says that next_return is not NULL, *)
(* distance is embedding <=> $1 for the query vector of the call (a NaN,   *)
(* which PostgreSQL orders after every number, counts as the largest).     *)
(***************************************************************************)
\* Rows of the table, values of k and distances the model draws.
MaxRows == 3
MaxK == 2
MaxDistance == 1

PatternRow(time, labelled, distance) ==
    [time |-> time, labelled |-> labelled, distance |-> distance]

\* The tables: any of the rows 1..MaxRows, each labelled or not, at any
\* distance; the key (time) is unique.
PatternTables ==
    {{PatternRow(t, f[t].labelled, f[t].distance) : t \in DOMAIN f} :
        f \in UNION {[S -> [labelled : BOOLEAN, distance : 0..MaxDistance]] :
                        S \in SUBSET (1..MaxRows)}}

\* Mutant: the query has no WHERE clause.
M_WhereLabelled(rows) == rows

\* postgres.go:180  WHERE next_return IS NOT NULL
WhereLabelled(rows) == {r \in rows : r.labelled}

\* postgres.go:181  ORDER BY distance ASC: every order of the rows in which
\* the distance does not fall; rows at the same distance come in any order.
OrderByDistance(rows) ==
    {o \in [1..Cardinality(rows) -> rows] :
        /\ \A i, j \in DOMAIN o : i # j => o[i] # o[j]
        /\ \A i, j \in DOMAIN o : i < j => o[i].distance <= o[j].distance}

\* postgres.go:182  LIMIT $2
Limit(o, k) == SubSeq(o, 1, IF Len(o) < k THEN Len(o) ELSE k)

\* postgres.go:173-183: what the SELECT can answer.
Select(rows, k) == {Limit(o, k) : o \in OrderByDistance(WhereLabelled(rows))}

\* postgres.go:185-226: the rows the call returns.  Query can fail (nil
\* and the error); the loop appends the rows as they are scanned and stops
\* when rows.Next() answers false, at the end of the rows or at an error of
\* the connection, which the function does not look at: what was read so far
\* is returned with a nil error.
SearchAnswers(rows, k) ==
    {[asked |-> TRUE, err |-> TRUE, ended |-> FALSE, results |-> <<>>]} \cup
    {[asked |-> TRUE, err |-> FALSE, ended |-> n = Len(a),
      results |-> SubSeq(a, 1, n)] :
        <<a, n>> \in {<<a, n>> \in Select(rows, k) \X (0..MaxK) : n <= Len(a)}}

NotAsked == [asked |-> FALSE, err |-> FALSE, ended |-> FALSE, results |-> <<>>]

\* postgres.go:165-227
SearchCall ==
    /\ qCall # <<>>
    /\ ~qCall.answer.asked
    /\ \E a \in SearchAnswers(qCall.rows, qCall.k) :
         qCall' = [qCall EXCEPT !.answer = a]
    /\ UNCHANGED <<mergeVars, dbVars, labelVars, tradeVars, streamVars, featVars, liveVars,
                   consumerVars, exchVars, procVars, localVars>>

(***************************************************************************)
(* The audit-log queue and its consumer (candle.go:212-277).  The queue is *)
(* FIFO with one message group (put.go:26-32): the oldest message that is  *)
(* not deleted is the one delivered, and none while one is in flight.  A   *)
(* message is [key, parsable, status, receipts, ingested]: key stands for  *)
(* (recorded_at, symbol) of its record as json.Unmarshal reads it into     *)
(* TradingLog (postgres.go:19-26), ingested is set once an                 *)
(* IngestTradingLog of it has committed.  Two messages may carry the same  *)
(* key: the body of part_008:260-267 names the time "recorded_at", which   *)
(* matches no field of TradingLog, so RecordedAt is empty in each of them. *)
(***************************************************************************)
MaxMessages == 2
MaxKeys == 2
LogKeys == 1..MaxKeys

Message(key, parsable) ==
    [key |-> key, parsable |-> parsable, status |-> "visible", receipts |-> 0,
     ingested |-> FALSE]

ConsumerAt(at, msg, db) == [pc |-> at, msg |-> msg, db |-> db]

\* part_008:278, put.go:14-40: the handler sends the record of a cycle.
PutTradingLog ==
    /\ Len(cQueue) < MaxMessages
    /\ \E key \in LogKeys, parsable \in BOOLEAN :
         cQueue' = Append(cQueue, Message(key, parsable))
    /\ UNCHANGED <<cLog, cPc>>
    /\ UNCHANGED <<mergeVars, dbVars, labelVars, tradeVars, streamVars, featVars, liveVars,
                   searchVars, exchVars, procVars, localVars>>

\* candle.go:212-221, consume_que/main.go:10-16: the process starts (again);
\* the error of NewPostgresDB is overwritten unread, so db may be nil.
ConsumerStart ==
    /\ cPc.pc \in {"none", "stopped"}
    /\ \E db \in BOOLEAN : cPc' = ConsumerAt("receive", 0, db)
    /\ UNCHANGED <<cQueue, cLog>>
    /\ UNCHANGED <<mergeVars, dbVars, labelVars, tradeVars, streamVars, featVars, liveVars,
                   searchVars, exchVars, procVars, localVars>>

\* The messages the queue can deliver now.
Deliverable ==
    {i \in 1..Len(cQueue) :
        /\ cQueue[i].status = "visible"
        /\ \A j \in 1..Len(cQueue) :
             /\ cQueue[j].status # "inflight"
             /\ j < i => cQueue[j].status = "deleted"}

\* candle.go:223-236: ReceiveMessage, one message at a time.  Receipts past
\* the second are not counted.
ReceiveMessage ==
    /\ cPc.pc = "receive"
    /\ \E i \in Deliverable :
        /\ cQueue' = [cQueue EXCEPT ![i].status = "inflight",
                                    ![i].receipts = IF @ < 2 THEN @ + 1 ELSE @]
        /\ cPc' = [cPc EXCEPT !.pc = "parse", !.msg = i]
    /\ UNCHANGED cLog
    /\ UNCHANGED <<mergeVars, dbVars, labelVars, tradeVars, streamVars, featVars, liveVars,
                   searchVars, exchVars, procVars, localVars>>

\* candle.go:227: 30 s after a receipt the message is visible again,
\* wherever the consumer stands (its calls carry context.TODO()).
VisibilityTimeout ==
    /\ \E i \in 1..Len(cQueue) :
        /\ cQueue[i].status = "inflight"
        /\ cQueue' = [cQueue EXCEPT ![i].status = "visible"]
    /\ UNCHANGED <<cLog, cPc>>
    /\ UNCHANGED <<mergeVars, dbVars, labelVars, tradeVars, streamVars, featVars, liveVars,
                   searchVars, exchVars, procVars, localVars>>

\* candle.go:242-246: a body that is no JSON is logged and left on the queue.
AfterUnmarshal(ok) == IF ok THEN "ingest" ELSE "receive"

\* candle.go:241-246
Unmarshal ==
    /\ cPc.pc = "parse"
    /\ cPc' = [cPc EXCEPT !.pc = AfterUnmarshal(cQueue[cPc.msg].parsable)]
    /\ UNCHANGED <<cQueue, cLog>>
    /\ UNCHANGED <<mergeVars, dbVars, labelVars, tradeVars, streamVars, featVars, liveVars,
                   searchVars, exchVars, procVars, localVars>>

\* postgres.go:237-261: INSERT ... ON CONFLICT (recorded_at, symbol) DO
\* NOTHING.
InsertSignalLog(log, key, by) ==
    IF \E r \in 1..Len(log) : log[r].key = key
    THEN log
    ELSE Append(log, [key |-> key, by |-> by])

\* Mutant: a failed ingestion is logged and the message deleted.
M_AfterIngest(ok) == "delete"

\* candle.go:253-257: a failed ingestion ends ConsumeTradingLogs.
AfterIngest(ok) == IF ok THEN "delete" ELSE "stopped"

\* candle.go:253-258, postgres.go:229-276: the insert in its transaction;
\* an error of Begin, Exec or Commit leaves the table as it was, and a nil
\* db ends the process at db.Pool.
IngestTradingLog ==
    /\ cPc.pc = "ingest"
    /\ \E ok \in BOOLEAN :
        /\ ok => cPc.db
        /\ cLog' = IF ok
                   THEN InsertSignalLog(cLog, cQueue[cPc.msg].key, cPc.msg)
                   ELSE cLog
        /\ cQueue' = IF ok THEN [cQueue EXCEPT ![cPc.msg].ingested = TRUE]
                     ELSE cQueue
        /\ cPc' = [cPc EXCEPT !.pc = AfterIngest(ok)]
    /\ UNCHANGED <<mergeVars, dbVars, labelVars, tradeVars, streamVars, featVars, liveVars,
                   searchVars, exchVars, procVars, localVars>>

\* candle.go:264-273: DeleteMessage; its error is logged only.
DeleteMessage ==
    /\ cPc.pc = "delete"
    /\ \E ok \in BOOLEAN :
        cQueue' = IF ok THEN [cQueue EXCEPT ![cPc.msg].status = "deleted"]
                  ELSE cQueue
    /\ cPc' = [cPc EXCEPT !.pc = "receive"]
    /\ UNCHANGED cLog
    /\ UNCHANGED <<mergeVars, dbVars, labelVars, tradeVars, streamVars, featVars, liveVars,
                   searchVars, exchVars, procVars, localVars>>

(***************************************************************************)
(* The numbers of PlaceTrade (executor.go:109-199, 253-319, 336-429).  A   *)
(* float64 is kept exactly, as the fraction n / d in lowest terms, d > 0:   *)
(* the arithmetic of the code is taken as exact, so the model shows what    *)
(* the formulas do and leaves out what binary rounding adds.  A decimal     *)
(* string is [digits, precision]: its digits without the point, and the     *)
(* number of digits after the point.                                        *)
(***************************************************************************)
Frac(n, d) == LET g == GCD(Abs(n), d) IN [n |-> n \div g, d |-> d \div g]
Whole(k) == Frac(k, 1)
\* The operations cancel common factors before they multiply.
FracAdd(x, y) ==
    LET g == GCD(x.d, y.d)
    IN  Frac(x.n * (y.d \div g) + y.n * (x.d \div g), x.d * (y.d \div g))
FracSub(x, y) == FracAdd(x, [n |-> -y.n, d |-> y.d])
FracMul(x, y) ==
    LET g == GCD(Abs(x.n), y.d)
        h == GCD(Abs(y.n), x.d)
    IN  Frac((x.n \div g) * (y.n \div h), (x.d \div h) * (y.d \div g))
\* x / y for y > 0
FracDiv(x, y) == FracMul(x, [n |-> y.d, d |-> y.n])
FracLess(x, y) == FracSub(x, y).n < 0
FracLeq(x, y) == FracSub(x, y).n <= 0

RECURSIVE Pow10(_)
Pow10(k) == IF k = 0 THEN 1 ELSE 10 * Pow10(k - 1)

\* math.Floor: the integer division of TLA+ rounds toward minus infinity.
Floor(x) == x.n \div x.d

\* math.Round: the nearest integer, a half going away from zero.
Round(x) ==
    IF x.n >= 0
    THEN (2 * x.n + x.d) \div (2 * x.d)
    ELSE -((2 * (-x.n) + x.d) \div (2 * x.d))

\* fmt.Sprintf("%.<precision>f", x): the nearest decimal with `precision`
\* digits after the point, an exact half going to the even digit.
Sprintf(precision, x) ==
    LET scaled == FracMul(x, Whole(Pow10(precision)))
        low == Floor(scaled)
        twice == 2 * (scaled.n - low * scaled.d)
        digits == IF twice < scaled.d THEN low
                  ELSE IF twice > scaled.d THEN low + 1
                  ELSE IF low % 2 = 0 THEN low ELSE low + 1
    IN  [digits |-> digits, precision |-> precision]

\* strconv.FormatFloat(x, 'f', -1, 64): the shortest decimal that reads back
\* as x (x was parsed from a decimal string of at most 9 decimals).
FormatFloat(x) ==
    LET fits(k) == Pow10(k) % x.d = 0
        precision == CHOOSE k \in 0..9 :
                        fits(k) /\ \A j \in 0..(k - 1) : ~fits(j)
    IN  [digits |-> x.n * (Pow10(precision) \div x.d), precision |-> precision]

\* The number the exchange reads from a decimal string.
ValueOf(str) == Frac(str.digits, Pow10(str.precision))

\* Mutant: the stop distance ignores the leverage.
M_CalculateSL(e, price, side) ==
    IF side = "SHORT" THEN FracMul(price, FracAdd(Whole(1), e.SLPercentage))
    ELSE IF side = "LONG" THEN FracMul(price, FracSub(Whole(1), e.SLPercentage))
    ELSE Whole(0)

\* executor.go:283-300
CalculateSL(e, price, side) ==
    LET priceMovement == FracDiv(e.SLPercentage, Whole(e.Leverage))
    IN  IF side = "SHORT" THEN FracMul(price, FracAdd(Whole(1), priceMovement))
        ELSE IF side = "LONG" THEN FracMul(price, FracSub(Whole(1), priceMovement))
        ELSE Whole(0)

\* executor.go:302-319
CalculateTP(e, price, side) ==
    LET priceMovement == FracDiv(e.TPPercentage, Whole(e.Leverage))
    IN  IF side = "SHORT" THEN FracMul(price, FracSub(Whole(1), priceMovement))
        ELSE IF side = "LONG" THEN FracMul(price, FracAdd(Whole(1), priceMovement))
        ELSE Whole(0)

\* executor.go:264-268: the buying power over the price.
rawQty(e, aviableUsdtInPort, currentPrice) ==
    FracDiv(FracMul(FracMul(Whole(aviableUsdtInPort), e.AviableTradeRatio),
                    Whole(e.Leverage)),
            currentPrice)

\* executor.go:342-363: stepSize is the LOT_SIZE filter of the symbol and
\* precision its QuantityPrecision, two fields of the exchange information.
adjustQuantity(info, raw) ==
    LET qty == FracMul(Whole(Floor(FracDiv(raw, info.stepSize))), info.stepSize)
    IN  Sprintf(info.quantityPrecision, qty)

\* executor.go:403-428: tickSize is the PRICE_FILTER of the symbol and
\* precision its PricePrecision.
FormatPrice(info, price) ==
    LET roundedPrice ==
            FracMul(Whole(Round(FracDiv(price, info.tickSize))), info.tickSize)
    IN  Sprintf(info.pricePrecision, roundedPrice)

\* executor.go:132-139: futures.SideTypeBuy / SideTypeSell.
SideType(side) == IF side = "LONG" THEN "BUY" ELSE "SELL"

\* executor.go:147-154: NewCreateOrderService
CreateOrder(side, price, qty) ==
    [api |-> "order", side |-> side, type |-> "LIMIT", timeInForce |-> "GTC",
     price |-> price, quantity |-> qty]

\* executor.go:165-173, 184-192: NewCreateAlgoOrderService
CreateAlgoOrder(side, type, qty, triggerPrice) ==
    [api |-> "algoOrder", side |-> side, algoType |-> "CONDITIONAL",
     type |-> type, quantity |-> qty, reduceOnly |-> TRUE,
     triggerPrice |-> triggerPrice]

\* Bound of the model: the most decimals a filter of the exchange has.
MaxPrecision == 2

Precisions == 0..MaxPrecision
\* stepSize / tickSize of the filters: 1, 0.1, 0.01, ...
StepSizes == {Frac(1, Pow10(k)) : k \in Precisions}
\* futures.SymbolInfo with its filters: the four fields come with the
\* exchange information, each on its own.
ExchangeInfos ==
    [stepSize : StepSizes, quantityPrecision : Precisions,
     tickSize : StepSizes, pricePrecision : Precisions]
\* event.Kline.Close as parsed (part_008:237): 12.34, 12.5 and 30.
ClosePrices == {Frac(1234, 100), Frac(125, 10), Whole(30)}
\* config.go:83-86: the settings come from the environment; 0.03 and 0.7
\* are the defaults.
SLPercentages == {Whole(0), Frac(3, 100), Whole(4)}
TPPercentages == {Frac(7, 10), Frac(1, 100)}
Executors ==
    [AviableTradeRatio : {Frac(AviableTradeRatioPct, 100)}, Leverage : {Leverage},
     SLPercentage : SLPercentages, TPPercentage : TPPercentages]

NoDecimal == [digits |-> 0, precision |-> 0]
TradeIdle ==
    [pc |-> "none", slPrice |-> Whole(0), tpPrice |-> Whole(0),
     raw |-> Whole(0), quantity |-> NoDecimal, slPriceStr |-> NoDecimal,
     tpPriceStr |-> NoDecimal, sent |-> <<>>]
NoTrade ==
    [e |-> [AviableTradeRatio |-> Whole(0), Leverage |-> 1,
            SLPercentage |-> Whole(0), TPPercentage |-> Whole(0)],
     info |-> [stepSize |-> Whole(1), quantityPrecision |-> 0,
               tickSize |-> Whole(1), pricePrecision |-> 0],
     side |-> "", priceToPlace |-> Whole(1), balance |-> 0]

\* executor.go:109-110
TradePrices ==
    /\ trRun.pc = "prices"
    /\ trRun' = [trRun EXCEPT
                    !.slPrice = CalculateSL(trIn.e, trIn.priceToPlace, trIn.side),
                    !.tpPrice = CalculateTP(trIn.e, trIn.priceToPlace, trIn.side),
                    !.pc = "size"]
    /\ UNCHANGED trIn
    /\ UNCHANGED <<mergeVars, dbVars, labelVars, streamVars, moreVars, exchVars, procVars, localVars>>

\* executor.go:117, 253-280
TradeSize ==
    /\ trRun.pc = "size"
    /\ LET raw == rawQty(trIn.e, trIn.balance, trIn.priceToPlace)
       IN  trRun' = [trRun EXCEPT !.raw = raw,
                                  !.quantity = adjustQuantity(trIn.info, raw),
                                  !.pc = "fmtSL"]
    /\ UNCHANGED trIn
    /\ UNCHANGED <<mergeVars, dbVars, labelVars, streamVars, moreVars, exchVars, procVars, localVars>>

\* executor.go:121
TradeFormatSL ==
    /\ trRun.pc = "fmtSL"
    /\ trRun' = [trRun EXCEPT !.slPriceStr = FormatPrice(trIn.info, trRun.slPrice),
                              !.pc = "fmtTP"]
    /\ UNCHANGED trIn
    /\ UNCHANGED <<mergeVars, dbVars, labelVars, streamVars, moreVars, exchVars, procVars, localVars>>

\* executor.go:126
TradeFormatTP ==
    /\ trRun.pc = "fmtTP"
    /\ trRun' = [trRun EXCEPT !.tpPriceStr = FormatPrice(trIn.info, trRun.tpPrice),
                              !.pc = "entry"]
    /\ UNCHANGED trIn
    /\ UNCHANGED <<mergeVars, dbVars, labelVars, streamVars, moreVars, exchVars, procVars, localVars>>

\* executor.go:146-154: the price of the entry is priceToPlace as
\* strconv.FormatFloat writes it.
TradeEntry ==
    /\ trRun.pc = "entry"
    /\ trRun' = [trRun EXCEPT
                    !.sent = Append(@, CreateOrder(SideType(trIn.side),
                                                   FormatFloat(trIn.priceToPlace),
                                                   trRun.quantity)),
                    !.pc = "sl"]
    /\ UNCHANGED trIn
    /\ UNCHANGED <<mergeVars, dbVars, labelVars, streamVars, moreVars, exchVars, procVars, localVars>>

\* executor.go:165-173
TradeStopLoss ==
    /\ trRun.pc = "sl"
    /\ trRun' = [trRun EXCEPT
                    !.sent = Append(@, CreateAlgoOrder(SideType(closeSide(trIn.side)),
                                                       "STOP_MARKET", trRun.quantity,
                                                       trRun.slPriceStr)),
                    !.pc = "tp"]
    /\ UNCHANGED trIn
    /\ UNCHANGED <<mergeVars, dbVars, labelVars, streamVars, moreVars, exchVars, procVars, localVars>>

\* executor.go:184-192
TradeTakeProfit ==
    /\ trRun.pc = "tp"
    /\ trRun' = [trRun EXCEPT
                    !.sent = Append(@, CreateAlgoOrder(SideType(closeSide(trIn.side)),
                                                       "TAKE_PROFIT_MARKET",
                                                       trRun.quantity,
                                                       trRun.tpPriceStr)),
                    !.pc = "returned"]
    /\ UNCHANGED trIn
    /\ UNCHANGED <<mergeVars, dbVars, labelVars, streamVars, moreVars, exchVars, procVars, localVars>>

(***************************************************************************)
(* The kline stream (part_008:303).  futures.WsKlineServe reads the socket *)
(* in one loop and calls wsHandler for each message it has read: the call  *)
(* is a plain function call, so the loop reads again when the handler has  *)
(* returned.  The handler (part_008:94-300) calls PlaceTrade itself (244);  *)
(* the only goroutine it starts is the ingest (140).  Events are numbered   *)
(* in the order they arrive.                                                *)
(***************************************************************************)
\* Bound of the model: the kline events of a run.
MaxEvents == 4

KlineEvent(id, isFinal) == [id |-> id, isFinal |-> isFinal]
HandlerCall(event, stage) == [event |-> event, stage |-> stage]

\* The socket receives a kline event, final or not, whatever the handler does.
StreamArrive ==
    /\ sArrived < MaxEvents
    /\ sArrived' = sArrived + 1
    /\ \E isFinal \in BOOLEAN :
            sInbox' = Append(sInbox, KlineEvent(sArrived', isFinal))
    /\ UNCHANGED sCalls
    /\ UNCHANGED <<mergeVars, dbVars, labelVars, tradeVars, moreVars, exchVars, procVars, localVars>>

\* Mutant: the handler is started in a goroutine of its own.
M_LoopReads(calls) == TRUE

\* part_008:303: the loop is back at its read when no call it made runs.
LoopReads(calls) == \A i \in 1..Len(calls) : calls[i].stage = "returned"

\* part_008:94-99: the loop reads the oldest event and calls the handler,
\* which returns at once unless the event is final.
ServeRead ==
    /\ sInbox # <<>>
    /\ LoopReads(sCalls)
    /\ sInbox' = Tail(sInbox)
    /\ sCalls' = Append(sCalls,
                        HandlerCall(Head(sInbox).id,
                                    IF Head(sInbox).isFinal THEN "analysis"
                                    ELSE "returned"))
    /\ UNCHANGED sArrived
    /\ UNCHANGED <<mergeVars, dbVars, labelVars, tradeVars, moreVars, exchVars, procVars, localVars>>

\* part_008:118-248: the call reaches PlaceTrade, or returns without it.
CallDecides ==
    /\ \E i \in 1..Len(sCalls) :
        /\ sCalls[i].stage = "analysis"
        /\ \E stage \in {"PlaceTrade", "audit", "returned"} :
                sCalls' = [sCalls EXCEPT ![i].stage = stage]
    /\ UNCHANGED <<sArrived, sInbox>>
    /\ UNCHANGED <<mergeVars, dbVars, labelVars, tradeVars, moreVars, exchVars, procVars, localVars>>

\* part_008:244-256: PlaceTrade returns into the handler.
PlaceTradeReturns ==
    /\ \E i \in 1..Len(sCalls) :
        /\ sCalls[i].stage = "PlaceTrade"
        /\ sCalls' = [sCalls EXCEPT ![i].stage = "audit"]
    /\ UNCHANGED <<sArrived, sInbox>>
    /\ UNCHANGED <<mergeVars, dbVars, labelVars, tradeVars, moreVars, exchVars, procVars, localVars>>

\* part_008:256-300: the handler returns into the loop.
CallReturns ==
    /\ \E i \in 1..Len(sCalls) :
        /\ sCalls[i].stage = "audit"
        /\ sCalls' = [sCalls EXCEPT ![i].stage = "returned"]
    /\ UNCHANGED <<sArrived, sInbox>>
    /\ UNCHANGED <<mergeVars, dbVars, labelVars, tradeVars, moreVars, exchVars, procVars, localVars>>

(***************************************************************************)
(* The feature engine (ai/slope_return_zscore_calculation.go:28-67 and     *)
(* 153-186).  Lines 1-104 of the file are kept as they stand: the loop     *)
(* header of CalculateLogReturn is read as i = 1 .. len(closes) - 1 and    *)
(* res[-1] as res[i-1]; the return is prev - curr, as written.  In         *)
(* CalculateZScore the loop sets sqDiffSum and std anew for every element, *)
(* so the std the last loop divides by is the one of the last element.     *)
(* Closes are 100 * 2^k: math.Log(c + PlanckConstant) is ln 100 + k ln 2,  *)
(* the constant being far below the last bit of c, and a log return is a   *)
(* whole number of ln 2, which is the unit of the numbers below.  An       *)
(* element of a z-score is kept as [num, std2]: it is                      *)
(* num / (sqrt(std2) + PlanckConstant / ln 2).                             *)
(***************************************************************************)
\* slope_return_zscore_calculation.go:112-117, 120-132
PatternAI(symbol, interval, vectorWindow) ==
    [Symbol |-> symbol, Interval |-> interval, VectorWindow |-> vectorWindow]

FeatureCloses == {100, 200, 400}

RECURSIVE LogUnits(_)
\* slope_return_zscore_calculation.go:34-35: math.Log(c + PlanckConstant),
\* less ln 100, in units of ln 2.
LogUnits(c) == IF c <= 100 THEN 0 ELSE 1 + LogUnits(c \div 2)

\* slope_return_zscore_calculation.go:28-39
CalculateLogReturn(closes) ==
    IF Len(closes) < 2 THEN <<>>
    ELSE [i \in 1..(Len(closes) - 1) |->
             LET curr == LogUnits(closes[i + 1])
                 prev == LogUnits(closes[i])
             IN  prev - curr]

\* slope_return_zscore_calculation.go:42-67
CalculateZScore(data) ==
    IF Len(data) = 0 THEN <<>>
    ELSE LET n == Len(data)
             mean == Frac(SumSeq(data), n)
             lastDiff == FracSub(Whole(data[n]), mean)
             std2 == FracDiv(FracMul(lastDiff, lastDiff), Whole(n))
         IN  [i \in 1..n |->
                 [num |-> FracSub(Whole(data[i]), mean), std2 |-> std2]]

\* Mutant: the first N + 1 candles are taken.
M_LastWindow(history, reqLen) == SubSeq(history, 1, reqLen)

\* slope_return_zscore_calculation.go:162  history[len(history)-reqLen:]
LastWindow(history, reqLen) ==
    SubSeq(history, Len(history) - reqLen + 1, Len(history))

\* slope_return_zscore_calculation.go:153-186: the feature CalculateFeatures
\* returns for the agent p, with its embedding and its tags.
PatternFeature(p, history) ==
    LET reqLen == p.VectorWindow + 1
        tags == CalculateFeatures(p.VectorWindow, LastWindow(history, reqLen))
        lastWindow == LastWindow(history, reqLen)
        closes == [i \in 1..Len(lastWindow) |-> lastWindow[i].close]
    IN  IF Len(history) < reqLen THEN [nil |-> TRUE]
        ELSE [nil |-> FALSE,
              Time |-> tags.Time,
              Symbol |-> p.Symbol,
              Interval |-> p.Interval,
              Embedding |-> CalculateZScore(CalculateLogReturn(closes)),
              ClosePrice |-> tags.ClosePrice]

\* The symbol and the interval of the agent (part_008:27-28).
Symbol == "ETHUSDT"
Interval == "15m"

\* Histories handed to CalculateFeatures, up to one candle more than the
\* largest window needs.
FeatureInputs ==
    {[i \in 1..Len(cs) |-> InputData(i * IntervalSecs, cs[i])] :
        cs \in UNION {[1..n -> FeatureCloses] : n \in 0..(MaxWindow + 2)}}

\* Prices handed to CalculateSlope: those of TestGetSlope (ai_test.go:26).
SlopePrices == {100, 110, 120}
SlopeInputs == UNION {[1..n -> SlopePrices] : n \in 0..(MaxWindow + 1)}
NoSlope == [prices |-> <<>>, done |-> FALSE, out |-> Rat(0, 0, 1)]

\* slope_return_zscore_calculation.go:153
FeaturesCall ==
    /\ ~lFeature.done
    /\ lFeature' = Computed(PatternFeature(PatternAI(Symbol, Interval, lWindow),
                                           lHistory))
    /\ UNCHANGED <<lHistory, lWindow, lUpdates, lBulk, lSlope>>
    /\ UNCHANGED <<mergeVars, dbVars, tradeVars, streamVars, liveVars, searchVars,
                   consumerVars, exchVars, procVars, localVars>>

\* slope_return_zscore_calculation.go:70
SlopeCall ==
    /\ ~lSlope.done
    /\ lSlope' = [lSlope EXCEPT !.done = TRUE, !.out = CalculateSlope(lSlope.prices)]
    /\ UNCHANGED <<lHistory, lWindow, lUpdates, lBulk, lFeature>>
    /\ UNCHANGED <<mergeVars, dbVars, tradeVars, streamVars, liveVars, searchVars,
                   consumerVars, exchVars, procVars, localVars>>

(***************************************************************************)
(* The specifications.                                                     *)
(***************************************************************************)
MergeIdle ==
    /\ mHistory = <<>>
    /\ mLive = InputData(0, 0)
    /\ mReqWindow = 1
    /\ mResult = NotRun

ProcessIdle ==
    /\ pc = "idle"
    /\ cycle = 0
    /\ liveTime = 0
    /\ window = <<>>
    /\ dispatched = FALSE
    /\ ingested = FALSE
    /\ hasPos = FALSE
    /\ signal = NoSignal
    /\ ops = <<>>
    /\ toCancel = {}
    /\ polls = 0
    /\ quantity = ""
    /\ tradeErr = "none"
    /\ outcome = ""
    /\ position = 0
    /\ orders = {}
    /\ algos = {}

LabelsIdle ==
    /\ lHistory = <<>>
    /\ lWindow = 1
    /\ lUpdates = NotComputed
    /\ lBulk = NotComputed

DbIdle ==
    /\ dbTable = {}
    /\ dbTx = TxClosed(0)
    /\ dbView = {}
    /\ dbLog = [b \in 1..MaxBatches |-> "none"]

TradesIdle ==
    /\ trIn = NoTrade
    /\ trRun = TradeIdle

StreamIdle ==
    /\ sArrived = 0
    /\ sInbox = <<>>
    /\ sCalls = <<>>

FeaturesIdle ==
    /\ lFeature = NotComputed
    /\ lSlope = NoSlope

LiveIdle ==
    /\ gHandler = [candle |-> 0, pc |-> "idle", searched |-> 0]
    /\ gTasks = [b \in 1..MaxCandles |-> NoTask]

SearchIdle == qCall = <<>>

ConsumerIdle ==
    /\ cQueue = <<>>
    /\ cLog = <<>>
    /\ cPc = ConsumerAt("none", 0, FALSE)

MoreIdle ==
    /\ FeaturesIdle
    /\ LiveIdle
    /\ SearchIdle
    /\ ConsumerIdle

Init ==
    /\ MergeIdle
    /\ DbIdle
    /\ LabelsIdle
    /\ TradesIdle
    /\ StreamIdle
    /\ MoreIdle
    /\ ProcessIdle

Next ==
    \/ WsEventNotFinal
    \/ WsEventFinal
    \/ FetchAndMerge
    \/ FeatureAndSpawn
    \/ CheckPosition
    \/ SearchPatterns
    \/ GenerateTradingPrompt
    \/ GenerateSignal
    \/ CancelAllOpenOrders
    \/ ListOpenAlgoOrders
    \/ CancelAlgoOrder
    \/ WaitPoll
    \/ WaitTimeout
    \/ CalculateQuantity
    \/ FormatSLPrice
    \/ FormatTPPrice
    \/ PlaceEntry
    \/ PlaceStopLoss
    \/ PlaceTakeProfit
    \/ AuditAndNotify
    \/ HandlerReturn
    \/ IngestReturns
    \/ EntryFill
    \/ AlgoTrigger

Spec == Init /\ [][Next]_vars

\* The ticker of the balance wait ticks (no fetch is asked to succeed: a
\* counted tick is a step whatever it reads), and the timer, once fired, is
\* taken by the select (a ready case of a Go select is chosen fairly).
CountedTick == polls < MaxPolls /\ WaitPoll
SpecFair == Spec /\ WF_vars(CountedTick) /\ WF_vars(WaitTimeout)

\* SafeMerge alone: the inputs are drawn, then the call is made.
InitMerge ==
    /\ mHistory \in Histories
    /\ mLive \in {InputData(t, 0) : t \in Times}
    /\ mReqWindow \in 1..MaxWindow
    /\ mResult = NotRun
    /\ DbIdle
    /\ LabelsIdle
    /\ TradesIdle
    /\ StreamIdle
    /\ MoreIdle
    /\ ProcessIdle

MergeCall ==
    /\ mResult = NotRun
    /\ mResult' = SafeMerge(mHistory, mLive, mReqWindow, IntervalSecs)
    /\ UNCHANGED <<mHistory, mLive, mReqWindow>>
    /\ UNCHANGED <<dbVars, labelVars, tradeVars, streamVars, moreVars, exchVars, procVars, localVars>>

NextMerge == MergeCall

SpecMerge == InitMerge /\ [][NextMerge]_vars

\* The pattern store alone: the ingests of consecutive candles, one at a
\* time, and similarity queries at any moment.
InitIngest == Init

NextIngest ==
    \/ IngestBegin
    \/ IngestUpsert
    \/ IngestLabel
    \/ IngestCommit
    \/ SearchQuery

SpecIngest == InitIngest /\ [][NextIngest]_vars

\* The pattern store with the backfill program: BulkSave runs at any moment
\* of the ingests of the live process.
InitBackfill == Init

NextBackfill ==
    \/ IngestBegin
    \/ IngestUpsert
    \/ IngestLabel
    \/ IngestCommit
    \/ BulkSave

SpecBackfill == InitBackfill /\ [][NextBackfill]_vars

\* The live process on the pattern store: the handler and the ingests it
\* has started.
InitLive == Init

NextLive ==
    \/ LiveEvent
    \/ LiveSpawn
    \/ LivePosition
    \/ LiveSearch
    \/ \E b \in 1..MaxCandles : TaskBegin(b)
    \/ \E b \in 1..MaxCandles : TaskUpsert(b)
    \/ \E b \in 1..MaxCandles : TaskLabel(b)
    \/ \E b \in 1..MaxCandles : TaskCommit(b)
    \/ \E b \in 1..MaxCandles : TaskFail(b)

SpecLive == InitLive /\ [][NextLive]_vars

\* The producer, the queue and the consumer process.
InitConsumer == Init

NextConsumer ==
    \/ PutTradingLog
    \/ ConsumerStart
    \/ ReceiveMessage
    \/ VisibilityTimeout
    \/ Unmarshal
    \/ IngestTradingLog
    \/ DeleteMessage

SpecConsumer == InitConsumer /\ [][NextConsumer]_vars

\* One SearchPatterns call: the table and k are drawn, then the call is
\* made.
InitSearch ==
    /\ qCall \in [rows : PatternTables, k : 1..MaxK, answer : {NotAsked}]
    /\ FeaturesIdle
    /\ LiveIdle
    /\ ConsumerIdle
    /\ MergeIdle
    /\ DbIdle
    /\ LabelsIdle
    /\ TradesIdle
    /\ StreamIdle
    /\ ProcessIdle

NextSearch == SearchCall

SpecSearch == InitSearch /\ [][NextSearch]_vars

\* CalculateFeatures alone: the agent's window and the history are drawn,
\* then the call is made.
InitFeatures ==
    /\ lHistory \in FeatureInputs
    /\ lWindow \in 1..MaxWindow
    /\ lUpdates = NotComputed
    /\ lBulk = NotComputed
    /\ FeaturesIdle
    /\ LiveIdle
    /\ SearchIdle
    /\ ConsumerIdle
    /\ MergeIdle
    /\ DbIdle
    /\ TradesIdle
    /\ StreamIdle
    /\ ProcessIdle

NextFeatures == FeaturesCall

SpecFeatures == InitFeatures /\ [][NextFeatures]_vars

\* CalculateSlope alone: the prices are drawn, then the call is made.
InitSlope ==
    /\ lSlope \in {[NoSlope EXCEPT !.prices = p] : p \in SlopeInputs}
    /\ lFeature = NotComputed
    /\ LabelsIdle
    /\ LiveIdle
    /\ SearchIdle
    /\ ConsumerIdle
    /\ MergeIdle
    /\ DbIdle
    /\ TradesIdle
    /\ StreamIdle
    /\ ProcessIdle

NextSlope == SlopeCall

SpecSlope == InitSlope /\ [][NextSlope]_vars

\* CalculateLabels alone: the history is drawn, then the call is made.
InitLabels ==
    /\ lHistory \in LabelInputs
    /\ lWindow = 1
    /\ lUpdates = NotComputed
    /\ lBulk = NotComputed
    /\ MergeIdle
    /\ DbIdle
    /\ TradesIdle
    /\ StreamIdle
    /\ MoreIdle
    /\ ProcessIdle

LabelsCall ==
    /\ ~lUpdates.done
    /\ lUpdates' = Computed(CalculateLabels(lHistory))
    /\ UNCHANGED <<lHistory, lWindow, lBulk>>
    /\ UNCHANGED <<mergeVars, dbVars, tradeVars, streamVars, moreVars, exchVars, procVars, localVars>>

NextLabels == LabelsCall

SpecLabels == InitLabels /\ [][NextLabels]_vars

\* CalculateBulkData alone: the agent's window and the history are drawn,
\* then the call is made.
InitBulk ==
    /\ lHistory \in LabelInputs
    /\ lWindow \in 1..MaxWindow
    /\ lUpdates = NotComputed
    /\ lBulk = NotComputed
    /\ MergeIdle
    /\ DbIdle
    /\ TradesIdle
    /\ StreamIdle
    /\ MoreIdle
    /\ ProcessIdle

BulkCall ==
    /\ ~lBulk.done
    /\ lBulk' = Computed(CalculateBulkData(lWindow, lHistory))
    /\ UNCHANGED <<lHistory, lWindow, lUpdates>>
    /\ UNCHANGED <<mergeVars, dbVars, tradeVars, streamVars, moreVars, exchVars, procVars, localVars>>

NextBulk == BulkCall

SpecBulk == InitBulk /\ [][NextBulk]_vars

\* The requests of one PlaceTrade alone, every external call answering: the
\* executor, the exchange information, the verdict, the close and the balance
\* are drawn, then PlaceTrade runs from its price calculation to its last
\* request.
InitOrders ==
    /\ trIn \in [e : Executors, info : ExchangeInfos, side : Sides,
                 priceToPlace : ClosePrices, balance : Balances]
    /\ trRun = [TradeIdle EXCEPT !.pc = "prices"]
    /\ StreamIdle
    /\ MoreIdle
    /\ MergeIdle
    /\ DbIdle
    /\ LabelsIdle
    /\ ProcessIdle

NextOrders ==
    \/ TradePrices
    \/ TradeSize
    \/ TradeFormatSL
    \/ TradeFormatTP
    \/ TradeEntry
    \/ TradeStopLoss
    \/ TradeTakeProfit

SpecOrders == InitOrders /\ [][NextOrders]_vars

\* The stream alone: events arrive at any moment and the loop hands them to
\* the handler.
InitStream == Init

NextStream ==
    \/ StreamArrive
    \/ ServeRead
    \/ CallDecides
    \/ PlaceTradeReturns
    \/ CallReturns

SpecStream == InitStream /\ [][NextStream]_vars

(***************************************************************************)
(* Properties of SafeMerge, under SpecMerge.                               *)
(***************************************************************************)
\* Positions of the history entries strictly older than the live candle.
OlderIdx == {i \in 1..Len(mHistory) : mHistory[i].time < mLive.time}
\* The last of them.
LastOlderIdx == CHOOSE i \in OlderIdx : \A j \in OlderIdx : j <= i
MergeRan == mResult # NotRun

\* C2: with at least reqWindow older entries, SafeMerge answers a continuity
\* gap exactly when the live time minus the time of the last retained entry
\* is not intervalSecs, and succeeds exactly when it is.
C2_GapCheck ==
    (MergeRan /\ Cardinality(OlderIdx) >= mReqWindow) =>
        LET diff == mLive.time - mHistory[LastOlderIdx].time
        IN  /\ diff # IntervalSecs => mResult.err = "ContinuityGap"
            /\ diff = IntervalSecs => mResult.err = "nil"

\* C2 witness: a gap larger than the interval was rejected.
C2_Witness ==
    /\ mResult.err = "ContinuityGap"
    /\ mLive.time - mHistory[LastOlderIdx].time > IntervalSecs

\* C3 (as claimed): a window SafeMerge returns has every adjacent pair of
\* candles exactly intervalSecs apart.
C3_WindowContiguous ==
    mResult.err = "nil" =>
        \A i \in 1..(Len(mResult.window) - 1) :
            mResult.window[i + 1].time - mResult.window[i].time = IntervalSecs

\* C4: a returned window has reqWindow + 1 entries: the last reqWindow older
\* history entries in their original order, then the live candle; nothing
\* at or after the live time comes from the history.
C4_WindowContent ==
    mResult.err = "nil" =>
        LET w == mResult.window
            older == SortedSeq(OlderIdx)
            skip == Len(older) - mReqWindow
        IN  /\ Len(w) = mReqWindow + 1
            /\ w[Len(w)] = mLive
            /\ skip >= 0
            /\ \A k \in 1..mReqWindow : w[k] = mHistory[older[skip + k]]
            /\ \A k \in 1..mReqWindow : w[k].time < mLive.time

\* C4 witness: a success where the history held the live candle itself and
\* more older entries than the window takes.
C4_Witness ==
    /\ mResult.err = "nil"
    /\ \E i \in 1..Len(mHistory) : mHistory[i].time >= mLive.time
    /\ Cardinality(OlderIdx) > mReqWindow

\* C5: with fewer than reqWindow older entries SafeMerge answers
\* insufficient history and no window.
C5_InsufficientHistory ==
    (MergeRan /\ Cardinality(OlderIdx) < mReqWindow) =>
        /\ mResult.err = "InsufficientHistory"
        /\ mResult.window = <<>>

\* C5 witness: the history was long enough only before the overlap was
\* dropped.
C5_Witness ==
    /\ mResult.err = "InsufficientHistory"
    /\ Len(mHistory) >= mReqWindow
    /\ Cardinality(OlderIdx) < mReqWindow

(***************************************************************************)
(* Properties of the handler and of PlaceTrade, under Spec.                *)
(***************************************************************************)
\* Positions in ops of the requests named `name`.
Sent(name) == {i \in 1..Len(ops) : ops[i].op = name}
SentOk(name) == {i \in 1..Len(ops) : ops[i] = Op(name, TRUE)}
SentFailed(name) == {i \in 1..Len(ops) : ops[i] = Op(name, FALSE)}
\* Every position of A comes before every position of B.
AllBefore(A, B) == \A i \in A, j \in B : i < j
\* PlaceTrade has returned and the handler has not yet.
TradeReturned == tradeErr # "none"
OrdersOfCycle == {o \in orders : o.cycle = cycle}
AlgosOfCycle == {a \in algos : a.cycle = cycle}
ProtectiveSent == Sent("CreateAlgoSL") \cup Sent("CreateAlgoTP")
CancelSent ==
    Sent("CancelAllOpenOrders") \cup Sent("ListOpenAlgoOrders")
        \cup Sent("CancelAlgoOrder")

\* C1: a cycle whose position check reported an open position returns at
\* once: PlaceTrade is not called, so no cancel, entry or protective order
\* is sent in it.
C1_SkipWhenInPosition ==
    hasPos =>
        /\ pc = "h_ret"
        /\ outcome = "inTrade"
        /\ ops = <<>>
        /\ tradeErr = "none"
        /\ OrdersOfCycle = {}
        /\ AlgosOfCycle = {}

\* C1 witness: the position left by an earlier cycle's filled entry made
\* this cycle skip.
C1_Witness ==
    /\ hasPos
    /\ position # 0
    /\ cycle > 1
    /\ pc = "h_ret"

\* C6: when the entry request fails it is the last request of the cycle:
\* PlaceTrade returns the entry error and neither protective order is sent.
C6_EntryFailureAborts ==
    SentFailed("CreateOrder") # {} =>
        /\ tradeErr = "entry"
        /\ pc \in {"h_audit", "h_ret"}
        /\ ProtectiveSent = {}
        /\ AlgosOfCycle = {}
        /\ SentFailed("CreateOrder") = {Len(ops)}

\* C6 witness: the entry was refused although the quantity was good.
C6_Witness ==
    /\ SentFailed("CreateOrder") # {}
    /\ quantity = "positive"
    /\ tradeErr = "entry"

\* C7: after a successful entry a failed stop-loss is followed by the
\* take-profit request; whatever the two protective requests answer, no
\* cancel is sent after the entry and PlaceTrade returns nil.
C7_ProtectiveFailureNonFatal ==
    SentOk("CreateOrder") # {} =>
        /\ SentFailed("CreateAlgoSL") # {} =>
             (pc = "t_tp" \/ Sent("CreateAlgoTP") # {})
        /\ AllBefore(CancelSent, Sent("CreateOrder"))
        /\ tradeErr \in {"none", "nil"}
        /\ TradeReturned =>
             /\ Sent("CreateAlgoSL") # {}
             /\ Sent("CreateAlgoTP") # {}
        /\ pc \in {"t_sl", "t_tp", "h_audit", "h_ret"}

\* C7 witness: both protective orders failed, the entry rests and PlaceTrade
\* returned nil.
C7_Witness ==
    /\ SentOk("CreateOrder") # {}
    /\ SentFailed("CreateAlgoSL") # {}
    /\ SentFailed("CreateAlgoTP") # {}
    /\ OrdersOfCycle # {}
    /\ tradeErr = "nil"

\* The requests of PlaceTrade in the order the claim gives them.
RequestOrder ==
    <<"CancelAllOpenOrders", "ListOpenAlgoOrders", "CancelAlgoOrder",
      "WaitForBalanceRelease", "GetBalance", "ExchangeInfo", "CreateOrder",
      "CreateAlgoSL", "CreateAlgoTP">>
\* The place of a request in that order.
StageOf ==
    [name \in {RequestOrder[k] : k \in 1..Len(RequestOrder)} |->
        CHOOSE k \in 1..Len(RequestOrder) : RequestOrder[k] = name]
\* The exchange filters are fetched by sizing and by each FormatPrice.
Repeatable == {"ExchangeInfo"}
OrderSent == Sent("CreateOrder") \cup ProtectiveSent

\* C8: the requests of one PlaceTrade go out in the order cancel standing
\* orders, list and cancel conditional orders, balance wait, sizing, entry,
\* stop-loss, take-profit: an order is sent only after both cancellations
\* were attempted and the wait returned, sizing reads the balance only after
\* the wait, and a protective order only after the entry succeeded.
C8_OperationOrder ==
    /\ \A i \in 1..(Len(ops) - 1) :
         \/ StageOf[ops[i].op] < StageOf[ops[i + 1].op]
         \/ ops[i].op = ops[i + 1].op /\ ops[i].op \in Repeatable
    /\ OrderSent # {} =>
         /\ Sent("CancelAllOpenOrders") # {}
         /\ Sent("ListOpenAlgoOrders") # {}
         /\ Sent("WaitForBalanceRelease") # {}
         /\ Sent("GetBalance") # {}
    /\ Sent("GetBalance") # {} => Sent("WaitForBalanceRelease") # {}
    /\ ProtectiveSent # {} => SentOk("CreateOrder") # {}
    /\ Sent("CreateAlgoTP") # {} => Sent("CreateAlgoSL") # {}

\* C8 witness: a PlaceTrade that cancelled a conditional order and went
\* through to the take-profit.
C8_Witness ==
    /\ Sent("CancelAlgoOrder") # {}
    /\ SentOk("CreateAlgoSL") # {}
    /\ SentOk("CreateAlgoTP") # {}
    /\ tradeErr = "nil"

\* C9 (as claimed): the orders resting on the exchange were all placed by
\* one cycle.
C9_OneLiveOrderSet ==
    Cardinality({o.cycle : o \in orders} \cup {a.cycle : a \in algos}) <= 1

\* C10: a failed cancellation (standing orders, the listing, or one
\* conditional order) does not end PlaceTrade: both cancellations are
\* attempted, the balance wait follows, and PlaceTrade returns only from a
\* later step (a price that cannot be formatted, or the entry and after).
C10_CancelFailureNonFatal ==
    (SentFailed("CancelAllOpenOrders") \cup SentFailed("ListOpenAlgoOrders")
        \cup SentFailed("CancelAlgoOrder")) # {} =>
        /\ pc # "t_listAlgo" => Sent("ListOpenAlgoOrders") # {}
        /\ Sent("CancelAllOpenOrders") # {}
        /\ pc \notin {"t_listAlgo", "t_cancelAlgo", "t_wait"} =>
             Sent("WaitForBalanceRelease") # {}
        /\ TradeReturned =>
             \/ tradeErr \in {"formatSL", "formatTP"}
             \/ Sent("CreateOrder") # {}

\* C10 witness: both cancellations failed, one on a single conditional
\* order, and the entry was still placed.
C10_Witness ==
    /\ SentFailed("CancelAllOpenOrders") # {}
    /\ SentFailed("CancelAlgoOrder") # {}
    /\ SentOk("CreateOrder") # {}
    /\ tradeErr = "nil"

\* One step of the balance wait judged against the claim: the fetch answer r
\* ends the wait with success exactly when it is a balance whose buying power
\* (balance x trade ratio x leverage) reaches the minimum; otherwise the wait
\* goes on and nothing is reported.
C11_PollStep(r) ==
    IF r.ok /\ r.balance * AviableTradeRatioPct * Leverage >= MinExpectedBalance * 100
    THEN /\ pc' = "t_size"
         /\ ops' = Append(ops, Op("WaitForBalanceRelease", TRUE))
    ELSE /\ pc' = "t_wait"
         /\ ops' = ops

\* C11: WaitForBalanceRelease returns success at the first poll whose balance
\* is enough, keeps polling on a failed fetch or a balance too low, leaves
\* only with success or with the timeout error, and always terminates.
C11_WaitTerminates ==
    /\ [][/\ \A r \in getUSDTAvailableBalance : WaitPollRead(r) => C11_PollStep(r)
          /\ (pc = "t_wait" /\ pc' # "t_wait") =>
                /\ pc' = "t_size"
                /\ \E ok \in BOOLEAN :
                     ops' = Append(ops, Op("WaitForBalanceRelease", ok))]_vars
    /\ (pc = "t_wait") ~> (pc = "t_size")

\* C11 witness: the wait ended with the timeout error.
C11_Witness ==
    /\ pc = "t_size"
    /\ ops[Len(ops)] = Op("WaitForBalanceRelease", FALSE)

\* C12: a balance wait that timed out does not end the cycle: sizing follows
\* and reads the balance anew, and PlaceTrade returns only from a later step
\* (a price that cannot be formatted, or the entry and after), with the entry
\* request sent whenever both prices were formatted.
C12_WaitTimeoutNonFatal ==
    SentFailed("WaitForBalanceRelease") # {} =>
        /\ pc \in {"t_size", "t_fmtSL", "t_fmtTP", "t_entry", "t_sl", "t_tp",
                    "h_audit", "h_ret"}
        /\ pc # "t_size" =>
              /\ Sent("GetBalance") # {}
              /\ AllBefore(Sent("WaitForBalanceRelease"), Sent("GetBalance"))
        /\ TradeReturned =>
              \/ tradeErr \in {"formatSL", "formatTP"}
              \/ Sent("CreateOrder") # {}

\* C12 witness: the wait timed out, the order was sized with the balance read
\* afterwards and the entry was placed.
C12_Witness ==
    /\ SentFailed("WaitForBalanceRelease") # {}
    /\ SentOk("GetBalance") # {}
    /\ quantity = "positive"
    /\ SentOk("CreateOrder") # {}

(***************************************************************************)
(* Properties of the pattern store, under SpecIngest.                      *)
(***************************************************************************)
\* The cells of batch b in a set of cells.
CellsBy(cells, b) == {c \in cells : c.by = b}
\* What a whole batch writes: its feature row and a label on every target
\* row that exists (rows are never deleted, and the row of an earlier candle
\* is written by the earlier batch only).
WritesOf(b) ==
    {Cell(b, "feature", b)} \cup
    {Cell(b - Horizon(LabelColumns[i]), LabelColumns[i], b) :
        i \in {j \in 1..Len(LabelColumns) :
                 RowExists(dbTable, b - Horizon(LabelColumns[j]))}}

\* C13: the committed table holds all the writes of a batch that committed
\* and nothing of a batch that is still running or failed, and the snapshot a
\* SearchPatterns query ran against holds either none or all of the writes of
\* each batch, so that its answer never shows a batch in part.
C13_IngestAtomic ==
    \A b \in 1..MaxBatches :
        /\ dbLog[b] # "committed" =>
              /\ CellsBy(dbTable, b) = {}
              /\ CellsBy(dbView, b) = {}
        /\ dbLog[b] = "committed" =>
              /\ CellsBy(dbTable, b) = WritesOf(b)
              /\ CellsBy(dbView, b) \in {{}, WritesOf(b)}
              /\ CellsBy(SearchResult(dbView), b) \in
                    {{}, WritesOf(b) \cap SearchResult(dbView)}

\* C13 witness: a query answered a row labelled by a committed batch, an
\* earlier batch failed after its upsert had run, and the running batch has
\* statements pending.
C13_Witness ==
    /\ \E c \in SearchResult(dbView) : c.col = "next_return"
    /\ \E b \in 1..MaxBatches : dbLog[b] = "failed"
    /\ dbTx.pc = "commit"
    /\ Cardinality(dbTx.pending) > 1

(***************************************************************************)
(* Properties of the handler, under Spec (continued).                      *)
(***************************************************************************)
\* The steps of the handler call itself, PlaceTrade included.
HandlerStep ==
    \/ FetchAndMerge
    \/ FeatureAndSpawn
    \/ CheckPosition
    \/ SearchPatterns
    \/ GenerateTradingPrompt
    \/ GenerateSignal
    \/ CancelAllOpenOrders
    \/ ListOpenAlgoOrders
    \/ CancelAlgoOrder
    \/ WaitPoll
    \/ WaitTimeout
    \/ CalculateQuantity
    \/ FormatSLPrice
    \/ FormatTPPrice
    \/ PlaceEntry
    \/ PlaceStopLoss
    \/ PlaceTakeProfit
    \/ AuditAndNotify
    \/ HandlerReturn
\* Why a call returned before a feature existed.
NoFeatureOutcomes ==
    {"fetchErr", "InsufficientHistory", "ContinuityGap", "noFeature"}

\* C14: the ingest goroutine is started exactly when SafeMerge passed and a
\* feature was computed, before the position check: it runs in every later
\* step of the call, also in a cycle skipped for an open position or ended
\* by a later error, and the handler is never held up while it runs.
C14_IngestDispatched ==
    /\ pc \in {"idle", "h_fetch", "h_feature", "exited"} => ~dispatched
    /\ pc \notin {"idle", "h_fetch", "h_feature", "h_ret", "exited"} => dispatched
    /\ pc = "h_ret" => (dispatched <=> outcome \notin NoFeatureOutcomes)
    /\ (hasPos \/ signal # NoSignal \/ ops # <<>>) => dispatched
    /\ (dispatched /\ ~ingested) => ENABLED HandlerStep

\* C14 witness: a cycle skipped for an open position returns while its
\* ingest, started before the position check, still runs.
C14_Witness ==
    /\ pc = "h_ret"
    /\ outcome = "inTrade"
    /\ dispatched
    /\ ~ingested

(***************************************************************************)
(* Properties of CalculateLabels, under SpecLabels.                        *)
(***************************************************************************)
\* The index (from 0) the claim gives as the target of a column, for a
\* history of n candles.
ClaimedTarget(col, n) ==
    CASE col = "next_return" -> n - 2
      [] col = "next_slope_3" -> n - 4
      [] col = "next_slope_5" -> n - 6
AllColumns == {"next_return", "next_slope_3", "next_slope_5"}
\* Column and target of the updates returned.
Emitted ==
    {[Column |-> lUpdates.out[k].Column, TargetTime |-> lUpdates.out[k].TargetTime] :
        k \in 1..Len(lUpdates.out)}
\* Column and target of the updates due for the columns in cols.
Due(cols) ==
    {[Column |-> col,
      TargetTime |-> At(lHistory, ClaimedTarget(col, Len(lHistory))).time] :
        col \in {x \in cols : ClaimedTarget(x, Len(lHistory)) >= 0}}

\* C15 (as claimed): each of the three updates is emitted exactly when its
\* target index is non-negative, and nothing else is.
C15_EmittedIffIndex ==
    lUpdates.done =>
        /\ Emitted = Due(AllColumns)
        /\ Len(lUpdates.out) = Cardinality(Due(AllColumns))

\* The columns due when next_return also needs a non-zero close of its
\* target candle.
ColumnsDue ==
    {col \in AllColumns :
        col = "next_return" =>
            (Len(lHistory) >= 2 => At(lHistory, Len(lHistory) - 2).close # 0)}

\* C15 (amended): next_return targets index n-2 and is emitted exactly when
\* that index is non-negative and the close of that candle is not zero;
\* next_slope_3 targets n-4 and next_slope_5 targets n-6, each emitted
\* exactly when its index is non-negative; nothing else is emitted.
C15_EmittedIffIndexAndClose ==
    lUpdates.done =>
        /\ Emitted = Due(ColumnsDue)
        /\ Len(lUpdates.out) = Cardinality(Due(ColumnsDue))

\* C15 witness: a history of more than six candles gave all three updates.
C15_Witness ==
    /\ lUpdates.done
    /\ Len(lHistory) > 6
    /\ Len(lUpdates.out) = 3

\* The index (from 0) of the candle an update targets, -1 when no candle of
\* the history has its TargetTime.
TargetIdxOf(u) ==
    IF \E i \in 0..(Len(lHistory) - 1) : At(lHistory, i).time = u.TargetTime
    THEN CHOOSE i \in 0..(Len(lHistory) - 1) : At(lHistory, i).time = u.TargetTime
    ELSE -1
\* The history with the close of candle j replaced by c.
WithClose(j, c) == [lHistory EXCEPT ![j + 1].close = c]
\* No update depends on a candle it must not read: whatever the close of
\* candle j, CalculateLabels returns again every update u for which
\* Barred(u, j) says that j is such a candle.
IndependentWhere(Barred(_, _)) ==
    \A j \in 0..(Len(lHistory) - 1), c \in Closes :
        LET again == CalculateLabels(WithClose(j, c))
        IN  \A k \in 1..Len(lUpdates.out) :
                Barred(lUpdates.out[k], j) =>
                    \E m \in 1..Len(again) : again[m] = lUpdates.out[k]
\* The candles up to and including the target.
UpToTarget(u, j) == j <= TargetIdxOf(u)
\* The candles before the target, and the target itself for a slope.
BeforeBase(u, j) ==
    IF u.Column = "next_return" THEN j < TargetIdxOf(u) ELSE j <= TargetIdxOf(u)
\* Every update targets a candle of the history strictly before the last.
TargetsEarlier ==
    \A k \in 1..Len(lUpdates.out) :
        /\ TargetIdxOf(lUpdates.out[k]) >= 0
        /\ TargetIdxOf(lUpdates.out[k]) < Len(lHistory) - 1
        /\ lUpdates.out[k].TargetTime < lHistory[Len(lHistory)].time

\* C16 (as claimed): no update targets the last candle, every TargetTime is
\* before the last candle's time, and every value is computed only from the
\* candles after its target: it does not depend on the target candle or on
\* any earlier one.
C16_OnlyLaterCandles ==
    lUpdates.done =>
        /\ TargetsEarlier
        /\ IndependentWhere(UpToTarget)

\* C16 (amended): no update targets the last candle, every TargetTime is
\* before the last candle's time, and every value is computed only from
\* candles from its target on up to the current one: a slope depends on no
\* candle up to and including its target, and a return on no candle before
\* its target (the close of the target is the base of the return).
C16_NoEarlierCandles ==
    lUpdates.done =>
        /\ TargetsEarlier
        /\ IndependentWhere(BeforeBase)

\* C16 witness: a slope over five candles that is not flat was attached to
\* the sixth candle from the end.
C16_Witness ==
    /\ lUpdates.done
    /\ \E k \in 1..Len(lUpdates.out) :
          /\ lUpdates.out[k].Column = "next_slope_5"
          /\ TargetIdxOf(lUpdates.out[k]) = Len(lHistory) - 6
          /\ lUpdates.out[k].Value # Rat(0, 0, 1)

(***************************************************************************)
(* Properties of CalculateBulkData, under SpecBulk.                        *)
(***************************************************************************)
\* The column of a horizon.
ColumnOf(h) ==
    CASE h = 1 -> "next_return"
      [] h = 3 -> "next_slope_3"
      [] h = 5 -> "next_slope_5"
Horizons == {1, 3, 5}
\* The results whose feature is the one of row i (index from 0).
RowsOf(i) ==
    {k \in 1..Len(lBulk.out) :
        lBulk.out[k].Features.Time = At(lHistory, i).time}
\* The updates of a column in a sequence of updates.
OfColumn(updates, col) ==
    {updates[k] : k \in {m \in 1..Len(updates) : updates[m].Column = col}}
\* What the incremental path emits once candle i + h is the current one.
IncrementalAt(i, h) == CalculateLabels(SubSeq(lHistory, 1, i + h + 1))

\* C17: for every row i >= N and every horizon h with i + h inside the
\* history, the bulk path has one result for row i, and what it attaches
\* to it in the column of h is what CalculateLabels emits in that column
\* on the history cut after candle i + h: same target, column and value.
C17_BulkAgreesWithIncremental ==
    lBulk.done =>
        \A i \in lWindow..(Len(lHistory) - 1), h \in Horizons :
            i + h < Len(lHistory) =>
                /\ Cardinality(RowsOf(i)) = 1
                /\ \A k \in RowsOf(i) :
                      OfColumn(lBulk.out[k].Labels, ColumnOf(h)) =
                          OfColumn(IncrementalAt(i, h), ColumnOf(h))

\* C17 witness: a row with a return and a slope over five candles that is
\* not flat, which the incremental path emits as well.
C17_Witness ==
    /\ lBulk.done
    /\ \E k \in 1..Len(lBulk.out) :
          /\ OfColumn(lBulk.out[k].Labels, "next_return") # {}
          /\ \E u \in OfColumn(lBulk.out[k].Labels, "next_slope_5") :
                /\ u.Value # Rat(0, 0, 1)
                /\ u \in OfColumn(IncrementalAt(lWindow + k - 1, 5),
                                   "next_slope_5")

\* The horizons whose column a result carries.
HorizonsIn(labels) == {h \in Horizons : OfColumn(labels, ColumnOf(h)) # {}}

\* C18: CalculateBulkData returns one result for every index i from N to
\* the end of the history, in that order, tagged with the time and the close
\* of candle i; every label of it targets candle i, a label of horizon h is
\* attached only when i + h lies inside the history (a slope whenever it
\* does), and the return is (close[i+1] - close[i]) / close[i].  For the
\* six candles 10..15 and N = 3 the first result has close 13 and a
\* next_return of 1/13.
C18_BulkRows ==
    lBulk.done =>
        /\ Len(lBulk.out) =
              IF Len(lHistory) > lWindow THEN Len(lHistory) - lWindow ELSE 0
        /\ \A k \in 1..Len(lBulk.out) :
              LET i == lWindow + k - 1
                  res == lBulk.out[k]
              IN  /\ res.Features.Time = At(lHistory, i).time
                  /\ res.Features.ClosePrice = At(lHistory, i).close
                  /\ Len(res.Labels) = Cardinality(HorizonsIn(res.Labels))
                  /\ \A m \in 1..Len(res.Labels) :
                        res.Labels[m].TargetTime = At(lHistory, i).time
                  /\ \A h \in HorizonsIn(res.Labels) : i + h < Len(lHistory)
                  /\ \A h \in {3, 5} :
                        i + h < Len(lHistory) => h \in HorizonsIn(res.Labels)
                  /\ \A u \in OfColumn(res.Labels, "next_return") :
                        u.Value = Rat(At(lHistory, i + 1).close
                                        - At(lHistory, i).close,
                                      0, At(lHistory, i).close)
        /\ (lHistory = TestHistory /\ lWindow = 3) =>
              /\ lBulk.out[1].Features.ClosePrice = 13
              /\ \E u \in OfColumn(lBulk.out[1].Labels, "next_return") :
                    u.Value = [a |-> 1, e |-> 0, den |-> 13]

\* C18 witness: the six candles of the test with N = 3.
C18_Witness ==
    /\ lBulk.done
    /\ lHistory = TestHistory
    /\ lWindow = 3
    /\ Len(lBulk.out) = 3

(***************************************************************************)
(* Properties of the confidence gate and of the event filter, under Spec.  *)
(***************************************************************************)
\* PlaceTrade has been called in this handler call.
PlaceTradeCalled ==
    \/ pc \in {"t_cancelOpen", "t_listAlgo", "t_cancelAlgo", "t_wait", "t_size",
                "t_fmtSL", "t_fmtTP", "t_entry", "t_sl", "t_tp"}
    \/ ops # <<>>
    \/ tradeErr # "none"

\* C19: a verdict whose confidence is below the threshold of the decision
\* service reaches the handler as HOLD; PlaceTrade is called only for a
\* verdict that is LONG or SHORT with a confidence at or above that
\* threshold (and the handler's own), and never for HOLD.
C19_ConfidenceGate ==
    /\ (signal # NoSignal /\ signal.conf < CONFIDENCE_THRESHOLD) =>
          /\ signal.side = "HOLD"
          /\ ~PlaceTradeCalled
    /\ signal.side = "HOLD" => ~PlaceTradeCalled
    /\ PlaceTradeCalled =>
          /\ signal.side \in {"LONG", "SHORT"}
          /\ signal.conf >= CONFIDENCE_THRESHOLD
          /\ signal.conf >= signalConfidence

\* C19 witness: a verdict that passes the handler's gate but not the
\* threshold of the service was held, and the cycle went on to its audit.
C19_Witness ==
    /\ signal.side = "HOLD"
    /\ signal.conf >= signalConfidence
    /\ signal.conf < CONFIDENCE_THRESHOLD
    /\ pc = "h_audit"

\* C20: the pipeline is started by a final event only (each one counted in
\* cycle), a non-final event changes nothing, and while the handler waits
\* for an event nothing is fetched, computed, dispatched, decided or sent.
C20_OnlyFinalDrives ==
    [][/\ (pc = "idle" /\ pc' # "idle") =>
             (cycle' = cycle + 1 /\ pc' = "h_fetch")
       /\ WsEventNotFinal => UNCHANGED vars
       /\ pc = "idle" =>
             /\ window = <<>>
             /\ ~dispatched
             /\ signal = NoSignal
             /\ ops = <<>>
             /\ tradeErr = "none"]_vars

\* C20 witness: the handler waits for an event after a cycle that placed an
\* entry; a non-final event arriving now is dropped.
C20_Witness ==
    /\ pc = "idle"
    /\ cycle >= 1
    /\ orders # {}
    /\ ENABLED WsEventNotFinal

(***************************************************************************)
(* Properties of the requests of PlaceTrade, under SpecOrders.             *)
(***************************************************************************)
Sized == trRun.pc \notin {"none", "prices", "size"}
IsMultipleOf(x, unit) == FracDiv(x, unit).d = 1

\* C21: the quantity sent to the exchange, as its formatted string reads, is
\* a multiple of the step size that is at most rawQty and more than rawQty
\* minus one step: the quantization floors and never rounds up.
C21_QuantityFloors ==
    Sized =>
        LET sentQty == ValueOf(trRun.quantity)
        IN  /\ IsMultipleOf(sentQty, trIn.info.stepSize)
            /\ FracLeq(sentQty, trRun.raw)
            /\ FracLess(FracSub(trRun.raw, trIn.info.stepSize), sentQty)

\* The prices PlaceTrade has sent so far: the decimal string of each request
\* with the price it was made from.
PricesSent ==
    {[str |-> trRun.sent[i].price, from |-> trIn.priceToPlace] :
        i \in {i \in 1..Len(trRun.sent) : trRun.sent[i].api = "order"}}
    \cup
    {[str |-> trRun.sent[i].triggerPrice,
      from |-> IF trRun.sent[i].type = "STOP_MARKET"
               THEN trRun.slPrice ELSE trRun.tpPrice] :
        i \in {i \in 1..Len(trRun.sent) : trRun.sent[i].api = "algoOrder"}}

\* The string reads as the multiple of tickSize nearest to the price it was
\* made from, and has pricePrecision decimals.
QuantizedPrice(p) ==
    LET sentPrice == ValueOf(p.str)
        off == FracSub(sentPrice, p.from)
        distance == IF off.n < 0 THEN FracSub(p.from, sentPrice) ELSE off
    IN  /\ IsMultipleOf(sentPrice, trIn.info.tickSize)
        /\ FracLeq(FracMul(Whole(2), distance), trIn.info.tickSize)
        /\ p.str.precision = trIn.info.pricePrecision

\* C22: every price sent to the exchange (the limit price of the entry, the
\* trigger prices of the stop-loss and of the take-profit) is rounded to the
\* nearest multiple of the tick size and formatted to pricePrecision decimals.
C22_PricesQuantized == \A p \in PricesSent : QuantizedPrice(p)

Priced == trRun.pc \notin {"none", "prices"}
\* part / leverage
PerLeverage(part) == FracDiv(part, Whole(trIn.e.Leverage))

\* C23: the protective prices are leverage-aware.  For LONG the stop is
\* entry * (1 - slPct / leverage) and the target entry * (1 + tpPct / leverage),
\* for SHORT the signs are flipped; so for positive percentages with
\* slPct / leverage < 1 (and a positive entry price) the stop lies strictly on
\* the losing side and the target strictly on the winning side of the entry.
C23_LeverageAwarePrices ==
    Priced =>
        LET entry == trIn.priceToPlace
            slMove == FracMul(entry, PerLeverage(trIn.e.SLPercentage))
            tpMove == FracMul(entry, PerLeverage(trIn.e.TPPercentage))
            positive == /\ trIn.e.SLPercentage.n > 0
                        /\ trIn.e.TPPercentage.n > 0
                        /\ FracLess(PerLeverage(trIn.e.SLPercentage), Whole(1))
        IN  /\ trIn.side = "LONG" =>
                /\ FracAdd(trRun.slPrice, slMove) = entry
                /\ FracSub(trRun.tpPrice, tpMove) = entry
                /\ positive => /\ FracLess(trRun.slPrice, entry)
                               /\ FracLess(entry, trRun.tpPrice)
            /\ trIn.side = "SHORT" =>
                /\ FracSub(trRun.slPrice, slMove) = entry
                /\ FracAdd(trRun.tpPrice, tpMove) = entry
                /\ positive => /\ FracLess(trRun.tpPrice, entry)
                               /\ FracLess(entry, trRun.slPrice)

\* A SHORT at 12.34 with the default settings has its prices: the stop at
\* 12.34 * 1.01 and the target at 12.34 * (1 - 0.7 / 3).
C23_Witness ==
    /\ Priced
    /\ trIn.side = "SHORT"
    /\ trIn.priceToPlace = Frac(1234, 100)
    /\ trIn.e.SLPercentage = Frac(3, 100)
    /\ trIn.e.TPPercentage = Frac(7, 10)
    /\ trRun.slPrice = Frac(1234 * 101, 100 * 100)
    /\ FracLess(trRun.tpPrice, trIn.priceToPlace)

EntriesSent == {i \in 1..Len(trRun.sent) : trRun.sent[i].api = "order"}
ProtectiveOrdersSent == {i \in 1..Len(trRun.sent) : trRun.sent[i].api = "algoOrder"}

\* C24: the entry is a standard limit order on the side of the decision (BUY
\* for LONG, SELL for SHORT); the stop-loss and the take-profit are reduce-only
\* conditional orders on the opposite side, with the quantity of the entry.
C24_OrderShapes ==
    /\ \A i \in EntriesSent :
            /\ trRun.sent[i].type = "LIMIT"
            /\ trIn.side = "LONG" => trRun.sent[i].side = "BUY"
            /\ trIn.side = "SHORT" => trRun.sent[i].side = "SELL"
    /\ \A j \in ProtectiveOrdersSent :
            /\ trRun.sent[j].algoType = "CONDITIONAL"
            /\ trRun.sent[j].type \in {"STOP_MARKET", "TAKE_PROFIT_MARKET"}
            /\ trRun.sent[j].reduceOnly
            /\ trIn.side = "LONG" => trRun.sent[j].side = "SELL"
            /\ trIn.side = "SHORT" => trRun.sent[j].side = "BUY"
            /\ EntriesSent # {}
            /\ \A i \in EntriesSent :
                    /\ i < j
                    /\ trRun.sent[j].quantity = trRun.sent[i].quantity
    /\ trRun.pc = "returned" =>
            /\ Cardinality(EntriesSent) = 1
            /\ {trRun.sent[j].type : j \in ProtectiveOrdersSent}
                    = {"STOP_MARKET", "TAKE_PROFIT_MARKET"}

\* PlaceTrade has sent the three orders of a LONG with a quantity above zero.
C24_Witness ==
    /\ trRun.pc = "returned"
    /\ trIn.side = "LONG"
    /\ Len(trRun.sent) = 3
    /\ trRun.sent[1].quantity.digits > 0
    /\ trRun.sent[3].side = "SELL"

(***************************************************************************)
(* Properties of the handler's error paths, under Spec.                    *)
(***************************************************************************)
MergeErrors == {"InsufficientHistory", "ContinuityGap"}
NoOrderOfCycle == OrdersOfCycle = {} /\ AlgosOfCycle = {}
LocalsFresh ==
    /\ liveTime = 0 /\ window = <<>> /\ ~dispatched /\ ~ingested /\ ~hasPos
    /\ signal = NoSignal /\ ops = <<>> /\ toCancel = {} /\ polls = 0
    /\ quantity = "" /\ tradeErr = "none" /\ outcome = ""

\* C25: when SafeMerge fails (continuity gap or insufficient history) the
\* handler returns at once: no feature is computed and nothing is handed to
\* the pattern store, no verdict is asked for and no request goes to the
\* exchange; nothing of the call is kept once it has returned, and the next
\* candle-close event is taken.
C25_MergeFailureAborts ==
    /\ outcome \in MergeErrors =>
            /\ pc = "h_ret"
            /\ window = <<>>
            /\ ~dispatched /\ ~ingested
            /\ signal = NoSignal
            /\ ops = <<>>
            /\ NoOrderOfCycle
    /\ pc = "idle" =>
            /\ LocalsFresh
            /\ cycle < MaxCycles => ENABLED WsEventFinal

\* The second cycle ends on a continuity gap while the entry of the first
\* cycle rests on the exchange.
C25_Witness ==
    /\ pc = "h_ret"
    /\ outcome = "ContinuityGap"
    /\ cycle = 2
    /\ orders # {}

CallErrors == {"fetchErr", "posErr", "searchErr", "llmErr"}

C27_EveryCycleAudited == pc = "h_ret" => outcome = "done"

\* C28: a failed queue send, upload or notification never stops the
\* pipeline: the process is there for the next candle-close event.
C28_AuditFailureNonFatal == pc # "exited"

\* C30: every external call of a cycle carries a deadline, so that the cycle
\* returns to waiting even when a service never answers.
C30_CallsCarryDeadline == \A seconds \in Deadline(pc) : seconds > 0

(***************************************************************************)
(* Properties of the stream, under SpecStream.                             *)
(***************************************************************************)
Running == {i \in 1..Len(sCalls) : sCalls[i].stage # "returned"}

\* C29: the candle-close events are handled one at a time, in the order they
\* arrived: a call, its PlaceTrade included, has returned before the call of
\* the next event is made, so no two PlaceTrade executions overlap.
C29_OneCycleAtATime ==
    /\ Cardinality(Running) <= 1
    /\ Cardinality({i \in Running : sCalls[i].stage = "PlaceTrade"}) <= 1
    /\ \A i \in 1..Len(sCalls) :
            /\ sCalls[i].event = i
            /\ i < Len(sCalls) => sCalls[i].stage = "returned"
    /\ \A k \in 1..Len(sInbox) : sInbox[k].id = Len(sCalls) + k

\* The first call is in PlaceTrade while the next two events wait unread.
C29_Witness ==
    /\ Len(sCalls) = 1
    /\ sCalls[1].stage = "PlaceTrade"
    /\ Len(sInbox) = 2
    /\ sInbox[1].isFinal

(***************************************************************************)
(* Properties of the pattern store with the backfill, under SpecBackfill.  *)
(***************************************************************************)
Populated(cells, row, col) == \E c \in cells : c.row = row /\ c.col = col

\* C31 (as claimed): a label column of a stored row that is populated stays
\* populated under every write to the pattern store (the upsert and the
\* label batch of IngestPattern, and BulkSave), and no write removes a row or
\* changes its key.
C31_LabelsOnlyPopulate ==
    [][\A c \in dbTable : Populated(dbTable', c.row, c.col)]_vars

(***************************************************************************)
(* Properties of the live process on the pattern store, under SpecLive.    *)
(***************************************************************************)
\* C32 (as claimed): when the ingests of candle T and of the candle that
\* learns a label of T have both ended with a commit, row T has that label:
\* next_return after T + 1, next_slope_3 after T + 3, next_slope_5 after
\* T + 5, however the ingests ran against each other.
C32_LabelsReachRow ==
    \A T \in 1..MaxCandles, i \in 1..Len(LabelColumns) :
        LET later == T + Horizon(LabelColumns[i])
        IN  (/\ later <= MaxCandles
             /\ gTasks[T].pc = "committed"
             /\ gTasks[later].pc = "committed") =>
                Populated(dbTable, T, LabelColumns[i])

\* C39: the search of candle T never answers row T, whether the ingest of T
\* has committed before it or not: while the handler is at candle T no
\* next_return of row T is stored, committed or pending.
C39_NotOwnNeighbour ==
    /\ gHandler.searched # 0 =>
          \A c \in SearchResult(dbView) : c.row # gHandler.searched
    /\ gHandler.candle # 0 =>
          /\ ~Populated(dbTable, gHandler.candle, "next_return")
          /\ \A b \in 1..MaxCandles :
                ~Populated(gTasks[b].pending, gHandler.candle, "next_return")

\* C39 witness: the search of a candle ran after the ingest of that candle
\* had committed, and answered earlier rows.
C39_Witness ==
    /\ gHandler.searched # 0
    /\ RowExists(dbView, gHandler.searched)
    /\ SearchResult(dbView) # {}

(***************************************************************************)
(* Properties of SearchPatterns, under SpecSearch.                         *)
(***************************************************************************)
Answered == qCall.answer.asked /\ ~qCall.answer.err
Returned == {qCall.answer.results[i] : i \in 1..Len(qCall.answer.results)}

LastCloses(n) == ClosesOf(lHistory, Len(lHistory) - n, Len(lHistory) - 1)

\* C34: CalculateFeatures returns nil when the history has fewer than N + 1
\* candles; otherwise the feature has an embedding of exactly N elements,
\* which is the z-score of the log returns of the last N + 1 closes, the time
\* and the close of the last candle, and the symbol and interval of the
\* agent.
C34_FeatureShape ==
    lFeature.done =>
        LET f == lFeature.out
            N == lWindow
        IN  /\ f.nil <=> Len(lHistory) < N + 1
            /\ ~f.nil =>
                  /\ Len(f.Embedding) = N
                  /\ f.Embedding = CalculateZScore(CalculateLogReturn(LastCloses(N + 1)))
                  /\ f.Time = At(lHistory, Len(lHistory) - 1).time
                  /\ f.ClosePrice = At(lHistory, Len(lHistory) - 1).close
                  /\ f.Symbol = Symbol
                  /\ f.Interval = Interval

\* C34 witness: a feature of a history longer than N + 1 whose earlier
\* candles differ from the ones of its window.
C34_Witness ==
    /\ lFeature.done
    /\ ~lFeature.out.nil
    /\ Len(lHistory) > lWindow + 1
    /\ lHistory[1].close # lHistory[Len(lHistory) - lWindow].close
    /\ \E i \in 1..lWindow : lFeature.out.Embedding[i].num.n # 0

\* An element of a z-score is 0; is 1 or -1 up to the part PlanckConstant
\* takes.
IsZero(z) == z.num.n = 0
IsOne(z) == z.num.n > 0 /\ FracMul(z.num, z.num) = z.std2
IsMinusOne(z) == z.num.n < 0 /\ FracMul(z.num, z.num) = z.std2

\* C36 (as claimed): the embedding, the z-score of the log returns, is as
\* long as its input, is all zeros for a flat window, sums to 0, and is
\* [1.0, -1.0] for the closes 100, 200, 100.
C36_ZScore ==
    (lFeature.done /\ ~lFeature.out.nil) =>
        LET z == lFeature.out.Embedding
            closes == LastCloses(lWindow + 1)
        IN  /\ Len(z) = Len(CalculateLogReturn(closes))
            /\ (\A i \in 1..Len(closes) : closes[i] = closes[1]) =>
                  \A i \in 1..Len(z) : IsZero(z[i])
            /\ SumSeq([i \in 1..Len(z) |-> z[i].num.n * (z[1].num.d \div z[i].num.d)])
                  = 0
            /\ closes = <<100, 200, 100>> => IsOne(z[1]) /\ IsMinusOne(z[2])

(***************************************************************************)
(* Properties of CalculateSlope, under SpecSlope.                          *)
(***************************************************************************)
\* C35 (as claimed): the slope is 0 for fewer than 2 prices and for a flat
\* series, the per-step rate d / p[0] for a series that rises or falls by
\* the same d at every step (0.1 for 100, 110, 120), positive for a strictly
\* rising and negative for a strictly falling series.
C35_Slope ==
    lSlope.done =>
        LET p == lSlope.prices
            n == Len(p)
            s == lSlope.out
            steps == {p[i + 1] - p[i] : i \in 1..(n - 1)}
        IN  /\ n < 2 => s = Rat(0, 0, 1)
            /\ (n >= 2 /\ steps = {0}) => s = Rat(0, 0, 1)
            /\ (n >= 2 /\ Cardinality(steps) = 1) =>
                  \A d \in steps : s = Rat(d, 0, p[1])
            /\ (n >= 2 /\ \A d \in steps : d > 0) => s.a > 0
            /\ (n >= 2 /\ \A d \in steps : d < 0) => s.a < 0

(***************************************************************************)
(* The entry against the position and against a failed sizing, under Spec. *)
(***************************************************************************)
\* The step sends the entry request of PlaceTrade.
EntrySent ==
    /\ Len(ops') = Len(ops) + 1
    /\ ops'[Len(ops')].op = "CreateOrder"

\* C37 (as claimed): whenever the entry request is sent the position of the
\* symbol is zero, whatever the exchange did since the position check.
C37_NoEntryWhileInPosition == [][EntrySent => position = 0]_vars

\* CalculateQuantity returned an error: its balance fetch failed, or the
\* fetch of the exchange filters that follows it.
SizingFailed ==
    \E i \in Sent("GetBalance") :
        \/ ~ops[i].ok
        \/ i < Len(ops) /\ ops[i + 1] = Op("ExchangeInfo", FALSE)

\* C38 (as claimed): after a failed sizing PlaceTrade returns an error
\* without sending the entry or a protective order.
C38_SizingFailureAborts ==
    SizingFailed =>
        /\ pc \in {"h_audit", "h_ret"}
        /\ tradeErr \notin {"none", "nil"}
        /\ Sent("CreateOrder") = {}
        /\ ProtectiveSent = {}

(***************************************************************************)
(* Properties of the audit-log consumer, under SpecConsumer.               *)
(***************************************************************************)
RowsOfKey(key) == {r \in 1..Len(cLog) : cLog[r].key = key}

====
